---- MODULE Spec2Model ----
(***************************************************************************)
(* Model of the agentic prompt orchestration engine of the cocktail        *)
(* backend: the intent selector, the prompt composer, the vector           *)
(* retrieval strategy and AgenticEngine.run with the LLM adapter.          *)
(*                                                                         *)
(* Text is modelled as a sequence of characters (one-character strings).   *)
(* A few atoms stand for fixed literal texts of the source (markers such   *)
(* as "[CONVERSATION]"); they behave as one non-NUL character.             *)
(***************************************************************************)
EXTENDS Integers, Sequences, FiniteSets, TLC

VARIABLES
    \* --- AgenticEngine.run and what it is called with ---
    selector,        \* the engine's fast_template_selector
    user_input,      \* the user_input argument (characters)
    user_id,         \* the user_id argument
    rag_enabled,     \* the rag_enabled argument
    llm_reply,       \* what the completion provider does when called
    readable_files,  \* the example files that exist and can be read
    pc,              \* position inside AgenticEngine.run
    template_name,   \* the selector's result
    example_cache,   \* AgenticEngine._example_cache
    run_prompt,      \* the segments of run's Prompt
    retrieved_chunks,\* run's retrieved_chunks
    rag_calls,       \* how many times run called the retrieval strategy
    llm_calls,       \* the texts sent to the completion provider, in order
    run_result,      \* <<>> or <<the dictionary run returned>>
    run_error,       \* "" or the exception run raised
    \* --- Prompt ---
    p_segments,      \* Prompt._segments
    p_sep,           \* Prompt._sep
    p_ops,           \* history: the mutations applied so far, oldest first
    \* --- SupabaseVectorDatabaseSearch and its collaborators ---
    tables,          \* knowledge store: table name -> rows, in fetch order
    fetch_fails,     \* the tables whose execute() raises
    embed_reply,     \* what the embedding provider does for the query
    top_k,           \* the top_k argument
    rag_pc,          \* "ready" before the call, "returned" after it
    rag_result,      \* the sequence __call__ returned
    \* --- one call of AgenticEngine._invoke_llm ---
    llm_prompt,      \* the prompt argument
    llm_schema,      \* the response_schema argument
    llm_pc,          \* "ready" before the call, "returned" or "raised" after
    llm_out,         \* what the call gave: its value or error, and what it sent
    \* --- callers of AgenticEngine._get_few_shot_examples ---
    loaders,         \* caller -> where its call stands and what it holds
    \* --- one chat connection (chat_routes.py, chat_service.py) ---
    chat,            \* the socket, its ChatSession and the message in hand
    \* --- chat connections side by side ---
    sessions,        \* connection -> what chat is for one connection
    \* --- the engine factory (factory.py) ---
    factory          \* _engine_instance, the engines built and the calls made

run_args    == <<selector, user_input, user_id, rag_enabled, llm_reply,
                 readable_files>>
run_state   == <<pc, template_name, example_cache, run_prompt,
                 retrieved_chunks, rag_calls, llm_calls, run_result, run_error>>
run_vars    == <<run_args, run_state>>
prompt_vars == <<p_segments, p_sep, p_ops>>
store_vars  == <<tables, fetch_fails, embed_reply, top_k>>
rag_vars    == <<rag_pc, rag_result>>
llm_vars    == <<llm_prompt, llm_schema, llm_pc, llm_out>>
other_vars  == <<sessions, factory>>
vars == <<run_vars, prompt_vars, store_vars, rag_vars, llm_vars, loaders, chat,
          other_vars>>

----------------------------------------------------------------------------
(* Bounds *)

\* number of vocabulary fragments concatenated into one selector input
MaxFrags == 2

\* number of mutations applied to one Prompt
MaxOps == 3

\* number of rows in the knowledge store, all tables together
MaxRows == 2

\* largest top_k asked for
MaxTopK == 2

\* number of places where a reply of the provider differs from a valid one
MaxEdits == 1

\* number of inbound messages read on one chat connection
MaxMessages == 2

\* number of calls of get_agentic_engine and reset_agentic_engine
MaxFactoryCalls == 4

----------------------------------------------------------------------------
(* Text helpers: Python str operations on character sequences *)

UpperLetters ==
    <<"A","B","C","D","E","F","G","H","I","J","K","L","M",
      "N","O","P","Q","R","S","T","U","V","W","X","Y","Z">>

LowerLetters ==
    <<"a","b","c","d","e","f","g","h","i","j","k","l","m",
      "n","o","p","q","r","s","t","u","v","w","x","y","z">>

\* str.lower() on one character
LowerChar(c) ==
    IF \E i \in 1..26 : UpperLetters[i] = c
        THEN LowerLetters[CHOOSE i \in 1..26 : UpperLetters[i] = c]
        ELSE c

\* str.lower()
Lower(s) == [i \in 1..Len(s) |-> LowerChar(s[i])]

\* `k in s` for Python strings: k occurs as a contiguous substring of s
In(k, s) ==
    \E i \in 1..(Len(s) - Len(k) + 1) : SubSeq(s, i, i + Len(k) - 1) = k

\* s.endswith(k)
EndsWith(s, k) ==
    /\ Len(s) >= Len(k)
    /\ SubSeq(s, Len(s) - Len(k) + 1, Len(s)) = k

\* any(k in s for k in keywords)
AnyIn(keywords, s) == \E k \in keywords : In(k, s)

----------------------------------------------------------------------------
(* AgenticEngine._default_selector *)

drink_keywords ==
    {<<"m","a","k","e"," ","m","e">>,
     <<"c","r","e","a","t","e">>,
     <<"p","r","e","p","a","r","e">>,
     <<"m","i","x">>,
     <<"m","i","x"," ","m","e">>,
     <<"b","u","i","l","d">>,
     <<"r","e","c","o","m","m","e","n","d">>,
     <<"i"," ","w","a","n","t">>,
     <<"i","'","d"," ","l","i","k","e">>}

KwSummarize == <<"s","u","m","m","a","r","i","z","e">>
KwAction    == <<"a","c","t","i","o","n">>
KwDoThis    == <<"d","o"," ","t","h","i","s">>

context_keywords ==
    {<<"c","o","n","t","e","x","t">>,
     <<"d","o","c","s">>,
     <<"d","o","c","u","m","e","n","t">>,
     <<"r","e","t","r","i","e","v","e">>,
     <<"r","e","f","e","r","e","n","c","e">>}

question_keywords ==
    {<<"h","o","w">>, <<"w","h","y">>, <<"w","h","a","t">>,
     <<"w","h","o">>, <<"w","h","e","r","e">>}

QuestionMark == <<"?">>

\* the summarize rule tried before the drink phrases
SelectorSummarizeFirst(input) ==
    IF In(KwSummarize, Lower(input)) THEN "summarization"
    ELSE IF AnyIn(drink_keywords, Lower(input)) THEN "action_generation"
    ELSE IF In(KwAction, Lower(input)) \/ In(KwDoThis, Lower(input))
        THEN "action_generation"
    ELSE IF AnyIn(context_keywords, Lower(input)) THEN "retrieval_augmented"
    ELSE IF AnyIn(question_keywords, Lower(input)) THEN "question_answering"
    ELSE IF EndsWith(input, QuestionMark) THEN "question_answering"
    ELSE "classic_completion"

\* the context rule tried before the action rule
SelectorContextBeforeAction(input) ==
    IF AnyIn(drink_keywords, Lower(input)) THEN "action_generation"
    ELSE IF In(KwSummarize, Lower(input)) THEN "summarization"
    ELSE IF AnyIn(context_keywords, Lower(input)) THEN "retrieval_augmented"
    ELSE IF In(KwAction, Lower(input)) \/ In(KwDoThis, Lower(input))
        THEN "action_generation"
    ELSE IF AnyIn(question_keywords, Lower(input)) THEN "question_answering"
    ELSE IF EndsWith(input, QuestionMark) THEN "question_answering"
    ELSE "classic_completion"

_default_selector(input) ==
    IF AnyIn(drink_keywords, Lower(input)) THEN "action_generation"
    ELSE IF In(KwSummarize, Lower(input)) THEN "summarization"
    ELSE IF In(KwAction, Lower(input)) \/ In(KwDoThis, Lower(input))
        THEN "action_generation"
    ELSE IF AnyIn(context_keywords, Lower(input)) THEN "retrieval_augmented"
    ELSE IF AnyIn(question_keywords, Lower(input)) THEN "question_answering"
    ELSE IF EndsWith(input, QuestionMark) THEN "question_answering"
    ELSE "classic_completion"

----------------------------------------------------------------------------
(* Prompt (prompt.py) *)

\* the character U+0000
NUL == "NUL"

RECURSIVE StripTrailingNul(_)
\* What a str becomes when it passes through a fixed-width NumPy unicode
\* array (dtype <U): trailing NUL characters are padding and are dropped.
StripTrailingNul(s) ==
    IF s # <<>> /\ s[Len(s)] = NUL
        THEN StripTrailingNul(SubSeq(s, 1, Len(s) - 1))
        ELSE s

\* Prompt.__init__: np.array([base] if base else [], dtype=object)
Prompt_init(base) == IF base # <<>> THEN <<base>> ELSE <<>>

\* Prompt.prepend: np.insert(self._segments, 0, part); the value is placed
\* in the object array as it is.
Prompt_prepend(segments, part) == <<part>> \o segments

\* Prompt.append: np.append(self._segments, part) ravels `part` into a <U
\* array first and concatenates that to the object array.
Prompt_append(segments, part) == segments \o <<StripTrailingNul(part)>>

\* Prompt.set: np.array(list(parts), dtype=object)
Prompt_set(parts) == parts

\* Prompt.clear
Prompt_clear == <<>>

\* filter(None, segments): drops the falsy (empty) segments
FilterNone(segments) == SelectSeq(segments, LAMBDA x : x # <<>>)

RECURSIVE StrJoin(_, _)
\* sep.join(parts)
StrJoin(sep, parts) ==
    IF parts = <<>> THEN <<>>
    ELSE IF Len(parts) = 1 THEN parts[1]
    ELSE parts[1] \o sep \o StrJoin(sep, Tail(parts))

\* Prompt.__str__ / Prompt.as_string
Prompt_as_string(segments, sep) == StrJoin(sep, FilterNone(segments))

\* Parts handed to prepend/append/__init__ and lists handed to set
Parts == {<<>>, <<"a">>, <<"b">>, <<"a", NUL>>, <<NUL>>}
SetLists == {<<>>, << <<"a">>, <<>>, <<"b">> >>, << <<"b">>, <<"a", NUL>> >>}
Seps == {<<"\n">>, <<>>}

PromptInit ==
    /\ p_sep \in Seps
    /\ \E base \in {<<>>, <<"a">>, <<"b">>} :
        /\ p_segments = Prompt_init(base)
        /\ p_ops = << [op |-> "init", arg |-> base] >>

PromptIdle ==
    /\ p_sep = <<"\n">>
    /\ p_segments = <<>>
    /\ p_ops = <<>>

Prepend(part) ==
    /\ p_ops # <<>> /\ Len(p_ops) <= MaxOps
    /\ p_segments' = Prompt_prepend(p_segments, part)
    /\ p_ops' = Append(p_ops, [op |-> "prepend", arg |-> part])
    /\ UNCHANGED <<p_sep, run_vars, store_vars, rag_vars, llm_vars, loaders, chat, other_vars>>

AppendPart(part) ==
    /\ p_ops # <<>> /\ Len(p_ops) <= MaxOps
    /\ p_segments' = Prompt_append(p_segments, part)
    /\ p_ops' = Append(p_ops, [op |-> "append", arg |-> part])
    /\ UNCHANGED <<p_sep, run_vars, store_vars, rag_vars, llm_vars, loaders, chat, other_vars>>

SetParts(parts) ==
    /\ p_ops # <<>> /\ Len(p_ops) <= MaxOps
    /\ p_segments' = Prompt_set(parts)
    /\ p_ops' = Append(p_ops, [op |-> "set", arg |-> parts])
    /\ UNCHANGED <<p_sep, run_vars, store_vars, rag_vars, llm_vars, loaders, chat, other_vars>>

Clear ==
    /\ p_ops # <<>> /\ Len(p_ops) <= MaxOps
    /\ p_segments' = Prompt_clear
    /\ p_ops' = Append(p_ops, [op |-> "clear", arg |-> <<>>])
    /\ UNCHANGED <<p_sep, run_vars, store_vars, rag_vars, llm_vars, loaders, chat, other_vars>>

PromptNext ==
    \/ \E part \in Parts : Prepend(part)
    \/ \E part \in Parts : AppendPart(part)
    \/ \E parts \in SetLists : SetParts(parts)
    \/ Clear

----------------------------------------------------------------------------
(* SupabaseVectorDatabaseSearch (rag.py) *)

Min(a, b) == IF a <= b THEN a ELSE b
Max(a, b) == IF a >= b THEN a ELSE b

\* factory.py: the tables the engine's strategy searches, in this order
RAG_TABLES ==
    <<"saq_product_embedding", "ingredient_embedding", "cocktail_embedding">>

TableNames == {RAG_TABLES[i] : i \in 1..Len(RAG_TABLES)}

\* Values of a row's "embedding" column, as the store returns them
PyNone == [py |-> "None"]
PyStr(text) == [py |-> "str", text |-> text]

\* ast.literal_eval on the embedding texts of the model: a list literal
\* evaluates to its list, anything else raises
LiteralEval(text) ==
    CASE text = "[]"      -> [ok |-> TRUE, value |-> <<>>]
      [] text = "[0, 0]"  -> [ok |-> TRUE, value |-> <<0, 0>>]
      [] text = "[1, 0]"  -> [ok |-> TRUE, value |-> <<1, 0>>]
      [] text = "[1, 1]"  -> [ok |-> TRUE, value |-> <<1, 1>>]
      [] text = "[1]"     -> [ok |-> TRUE, value |-> <<1>>]
      [] OTHER            -> [ok |-> FALSE]

RECURSIVE DotFrom(_, _, _)
DotFrom(u, v, i) ==
    IF i > Len(u) THEN 0 ELSE u[i] * v[i] + DotFrom(u, v, i + 1)

\* np.dot(u, v); np.linalg.norm(u) is zero exactly when Dot(u, u) is
Dot(u, v) == DotFrom(u, v, 1)

\* sklearn cosine_similarity of two row vectors.  It raises when the
\* dimensions differ.  The score is kept as sign(c) * c^2 * 4 for the
\* cosine c, an integer for the vectors of the model (entries in -1..1,
\* two components) and in the same order as c; a zero query gives 0.
cosine_similarity(q, d) ==
    IF Len(q) # Len(d) THEN [ok |-> FALSE]
    ELSE LET dot == Dot(q, d)
             nq  == Dot(q, q)
             nd  == Dot(d, d)
             mag == IF nq = 0 \/ nd = 0 THEN 0 ELSE (4 * dot * dot) \div (nq * nd)
         IN [ok |-> TRUE, score |-> IF dot < 0 THEN 0 - mag ELSE mag]

\* the loop body without the zero-norm check: such a row is scored 0
ScoreRowKeepingZeroNorm(q, item) ==
    IF item.embedding.py = "None" \/ item.embedding.text = ""
        THEN [kind |-> "skip"]
    ELSE LET parsed == LiteralEval(item.embedding.text)
         IN IF ~parsed.ok THEN [kind |-> "raise"]
            ELSE IF Len(parsed.value) = 0 THEN [kind |-> "skip"]
            ELSE LET sim == cosine_similarity(q, parsed.value)
                 IN IF ~sim.ok THEN [kind |-> "raise"]
                    ELSE [kind |-> "hit",
                          result |-> [content |-> item.content,
                                      score |-> sim.score]]

\* rag.py lines 96-127, one row of the loop: "skip" (continue), "raise",
\* or "hit" with the RAGRetrievalResult appended to all_results
ScoreRow(q, item) ==
    IF item.embedding.py = "None" \/ item.embedding.text = ""
        THEN [kind |-> "skip"]
    ELSE LET parsed == LiteralEval(item.embedding.text)
         IN IF ~parsed.ok THEN [kind |-> "raise"]
            ELSE IF Len(parsed.value) = 0 THEN [kind |-> "skip"]
            ELSE IF Dot(parsed.value, parsed.value) = 0 THEN [kind |-> "skip"]
            ELSE LET sim == cosine_similarity(q, parsed.value)
                 IN IF ~sim.ok THEN [kind |-> "raise"]
                    ELSE [kind |-> "hit",
                          result |-> [content |-> item.content,
                                      score |-> sim.score]]

RECURSIVE ScanRows(_, _, _, _)
\* the `for item in rows` loop from row i on, all_results being acc
ScanRows(q, rows, i, acc) ==
    IF i > Len(rows) THEN [raised |-> FALSE, results |-> acc]
    ELSE LET r == ScoreRow(q, rows[i])
         IN CASE r.kind = "skip"  -> ScanRows(q, rows, i + 1, acc)
              [] r.kind = "raise" -> [raised |-> TRUE, results |-> acc]
              [] r.kind = "hit"   ->
                    ScanRows(q, rows, i + 1, Append(acc, r.result))

\* max(top_k * 10, top_k)
max_candidates_per_table(k) == Max(k * 10, k)

\* query_builder.execute() with .limit(n): the first n rows of the table
FetchRows(tbls, tbl, n) == SubSeq(tbls[tbl], 1, Min(Max(n, 0), Len(tbls[tbl])))

RECURSIVE ScanTables(_, _, _, _, _, _)
\* the `for tbl in table_list` loop from table t on
ScanTables(q, tbls, fails, k, t, acc) ==
    IF t > Len(RAG_TABLES) THEN [raised |-> FALSE, results |-> acc]
    ELSE IF RAG_TABLES[t] \in fails THEN [raised |-> TRUE, results |-> acc]
    ELSE LET rows == FetchRows(tbls, RAG_TABLES[t], max_candidates_per_table(k))
             scan == ScanRows(q, rows, 1, acc)
         IN IF scan.raised THEN scan
            ELSE ScanTables(q, tbls, fails, k, t + 1, scan.results)

RECURSIVE InsertByScore(_, _)
\* x placed after every element whose score is >= its own
InsertByScore(sorted, x) ==
    IF sorted = <<>> THEN <<x>>
    ELSE IF Head(sorted).score >= x.score
        THEN <<Head(sorted)>> \o InsertByScore(Tail(sorted), x)
        ELSE <<x>> \o sorted

RECURSIVE SortFrom(_, _, _)
SortFrom(results, i, sorted) ==
    IF i > Len(results) THEN sorted
    ELSE SortFrom(results, i + 1, InsertByScore(sorted, results[i]))

RECURSIVE InsertByScoreAscending(_, _)
InsertByScoreAscending(sorted, x) ==
    IF sorted = <<>> THEN <<x>>
    ELSE IF Head(sorted).score <= x.score
        THEN <<Head(sorted)>> \o InsertByScoreAscending(Tail(sorted), x)
        ELSE <<x>> \o sorted

RECURSIVE SortAscendingFrom(_, _, _)
SortAscendingFrom(results, i, sorted) ==
    IF i > Len(results) THEN sorted
    ELSE SortAscendingFrom(results, i + 1, InsertByScoreAscending(sorted, results[i]))

\* the sort without reverse=True
SortByScoreAscending(results) == SortAscendingFrom(results, 1, <<>>)

\* all_results.sort(key=score, reverse=True): stable, descending
SortByScoreDescending(results) == SortFrom(results, 1, <<>>)

\* the slice taken one element too long
SliceTopKPlusOne(results, k) == SubSeq(results, 1, Min(k + 1, Len(results)))

\* all_results[:top_k]
SliceTopK(results, k) ==
    IF k >= 0 THEN SubSeq(results, 1, Min(k, Len(results)))
    ELSE SubSeq(results, 1, Max(Len(results) + k, 0))

\* a normal return of __call__
Returns(value) == [raised |-> FALSE, value |-> value]

\* an except clause that returns what was scored so far
ReturnPartialResults(partial) == Returns(partial)

\* no except clause: the exception leaves __call__
PropagateRetrievalException(partial) == [raised |-> TRUE, value |-> <<>>]

\* the except clause: log and return [], whatever all_results holds
OnRetrievalException(partial) == Returns(<<>>)

\* SupabaseVectorDatabaseSearch.__call__; user_id is accepted and unused
SupabaseVectorDatabaseSearch_call(reply, tbls, fails, k) ==
    IF reply.kind = "raise" THEN OnRetrievalException(<<>>)
    ELSE IF Len(reply.value) = 0 THEN Returns(<<>>)
    ELSE LET scan == ScanTables(reply.value, tbls, fails, k, 1, <<>>)
         IN IF scan.raised THEN OnRetrievalException(scan.results)
            ELSE IF scan.results = <<>> THEN Returns(<<>>)
            ELSE Returns(SliceTopK(SortByScoreDescending(scan.results), k))

\* a strategy that searches for known users only
RagStrategyForKnownUsers(reply, user, tbls, fails, k) ==
    IF user = "None" THEN Returns(<<>>)
    ELSE SupabaseVectorDatabaseSearch_call(reply, tbls, fails, k)

\* self.rag_strategy(user_input, user_id=user_id, top_k=top_k): __call__
\* takes user_id and hands it to nothing
rag_strategy(reply, user, tbls, fails, k) ==
    SupabaseVectorDatabaseSearch_call(reply, tbls, fails, k)

(* The knowledge store and the embedding provider *)

EmbeddingColumnValues ==
    {PyNone, PyStr(""), PyStr("[]"), PyStr("[0, 0]"), PyStr("[1, 0]"),
     PyStr("[1, 1]"), PyStr("[1]"), PyStr("oops")}

EmbedReplies ==
    {[kind |-> "raise"]} \cup
    {[kind |-> "vector", value |-> v] : v \in {<<>>, <<0, 0>>, <<1, 0>>, <<1, 1>>}}

TableLetter == <<"s", "i", "c">>
Digits == <<"1", "2", "3", "4", "5", "6", "7", "8", "9">>

\* the rows of table t when row j of the store goes to table place[j] and
\* carries the embedding col[j]; a row's content names its table and rank
RowsOf(n, place, col, t) ==
    LET idx == SelectSeq([j \in 1..n |-> j], LAMBDA j : place[j] = t)
    IN [r \in 1..Len(idx) |->
            [content |-> <<TableLetter[t], Digits[r]>>, embedding |-> col[idx[r]]]]

Stores ==
    UNION {
        { [name \in TableNames |->
              RowsOf(n, place, col, CHOOSE t \in 1..Len(RAG_TABLES) : RAG_TABLES[t] = name)]
          : place \in {f \in [1..n -> 1..Len(RAG_TABLES)] :
                            \A j \in 1..(n - 1) : f[j] <= f[j + 1]},
            col \in [1..n -> EmbeddingColumnValues] }
        : n \in 0..MaxRows }

StoreInit ==
    /\ tables \in Stores
    /\ fetch_fails \in {{}} \cup {{name} : name \in TableNames}
    /\ embed_reply \in EmbedReplies
    /\ top_k \in 0..MaxTopK

StoreIdle ==
    /\ tables = [name \in TableNames |-> <<>>]
    /\ fetch_fails = {}
    /\ embed_reply = [kind |-> "raise"]
    /\ top_k = 0

RagInit == rag_pc = "ready" /\ rag_result = <<>>

RagIdle == rag_pc = "idle" /\ rag_result = <<>>

\* one call of the strategy
Retrieve ==
    /\ rag_pc = "ready"
    /\ LET out == rag_strategy(embed_reply, user_id, tables, fetch_fails, top_k)
       IN /\ rag_result' = out.value
          /\ rag_pc' = IF out.raised THEN "raised" ELSE "returned"
    /\ UNCHANGED <<run_vars, prompt_vars, store_vars, llm_vars, loaders, chat, other_vars>>

RagNext == Retrieve

----------------------------------------------------------------------------
(* Template registry (prototypes.py) *)

\* a registry that lost the summarization entry
RegistryWithoutSummarization ==
    [classic_completion  |-> "get_classic_completion_prompt",
     retrieval_augmented |-> "get_retrieval_augmented_prompt",
     question_answering  |-> "get_question_answering_prompt",
     action_generation   |-> "get_action_generation_prompt",
     chat_style          |-> "get_chat_style_prompt"]

\* PROMPT_PROTOTYPE_REGISTRY: name -> factory
PROMPT_PROTOTYPE_REGISTRY ==
    [classic_completion  |-> "get_classic_completion_prompt",
     retrieval_augmented |-> "get_retrieval_augmented_prompt",
     question_answering  |-> "get_question_answering_prompt",
     action_generation   |-> "get_action_generation_prompt",
     summarization       |-> "get_summarization_prompt",
     chat_style          |-> "get_chat_style_prompt"]

\* a lookup that falls back to the classic completion template
PrototypeOrClassicCompletion(prototype_name, input) ==
    [raised |-> FALSE,
     prompt |-> Prompt_init(<<"get_classic_completion_prompt">>)]

\* get_prompt_prototype: the factory's Prompt, or ValueError for a name the
\* registry does not hold.  A factory builds Prompt("\n".join(segments)):
\* one segment, written here as one atom named after the factory.
get_prompt_prototype(prototype_name, input) ==
    IF prototype_name \in DOMAIN PROMPT_PROTOTYPE_REGISTRY
        THEN [raised |-> FALSE,
              prompt |-> Prompt_init(<<PROMPT_PROTOTYPE_REGISTRY[prototype_name]>>)]
        ELSE [raised |-> TRUE, prompt |-> <<>>]

----------------------------------------------------------------------------
(* Few-shot examples (engine.py) *)

template_to_examples ==
    [action_generation |->
        <<"create_martini_example.txt", "create_old_fashioned_example.txt",
          "create_drink_example.txt", "search_drink_example.txt",
          "suggest_drink_example.txt", "create_drink_custom_example.txt">>,
     retrieval_augmented |->
        <<"create_martini_example.txt", "create_old_fashioned_example.txt",
          "create_drink_example.txt", "search_drink_example.txt">>,
     chat_style |-> <<"create_drink_example.txt", "suggest_drink_example.txt">>,
     classic_completion |-> <<"create_drink_example.txt">>]

ExampleFiles ==
    UNION {{template_to_examples[n][i] : i \in 1..Len(template_to_examples[n])} :
              n \in DOMAIN template_to_examples}

\* the content of an example file, one atom per file
FileContent(file) == <<file>>

\* the loop over example_files: the contents of those that can be read
LoadExamples(files, readable) ==
    LET kept == SelectSeq(files, LAMBDA f : f \in readable)
    IN [i \in 1..Len(kept) |-> FileContent(kept[i])]

\* template_to_examples.get(template_name, [])
example_files(name) ==
    IF name \in DOMAIN template_to_examples THEN template_to_examples[name] ELSE <<>>

\* a store that extends the entry a name already has
StoreExamplesExtending(cache, name, examples) ==
    [n \in DOMAIN cache \cup {name} |->
        IF n # name THEN cache[n]
        ELSE IF name \in DOMAIN cache THEN cache[name] \o examples ELSE examples]

\* self._example_cache[template_name] = examples
StoreExamples(cache, name, examples) ==
    [n \in DOMAIN cache \cup {name} |-> IF n = name THEN examples ELSE cache[n]]

\* AgenticEngine._get_few_shot_examples: the examples and the cache after
_get_few_shot_examples(cache, name, readable) ==
    IF name \in DOMAIN cache
        THEN [examples |-> cache[name], cache |-> cache]
    ELSE LET examples == LoadExamples(example_files(name), readable)
         IN [examples |-> examples, cache |-> StoreExamples(cache, name, examples)]

\* a loop body that lets the error of a read escape
ReadExampleUncaught(examples, file, outcome) ==
    CASE outcome = "read"    -> [raised |-> FALSE, examples |-> Append(examples, FileContent(file))]
      [] outcome = "missing" -> [raised |-> FALSE, examples |-> examples]
      [] outcome = "error"   -> [raised |-> TRUE, examples |-> examples]

\* one turn of the loop over example_files: the file is read and appended,
\* or it does not exist (a warning), or exists() or the read raises (the
\* except clause logs the error); the loop goes on in every case
ReadExample(examples, file, outcome) ==
    CASE outcome = "read"    -> [raised |-> FALSE, examples |-> Append(examples, FileContent(file))]
      [] outcome = "missing" -> [raised |-> FALSE, examples |-> examples]
      [] outcome = "error"   -> [raised |-> FALSE, examples |-> examples]

\* what can happen to a file when the loop reaches it
ReadOutcomes(file, readable) ==
    IF file \in readable THEN {"read"} ELSE {"missing", "error"}

----------------------------------------------------------------------------
(* Parsed JSON (what json.loads gives) *)

\* Python values by type; a float counts in hundredths, a dict is its
\* items in insertion order
JNull      == [t |-> "null"]
JBool(b)   == [t |-> "bool", b |-> b]
JInt(n)    == [t |-> "int", n |-> n]
JFloat(h)  == [t |-> "float", h |-> h]
JStr(s)    == [t |-> "str", s |-> s]
JList(xs)  == [t |-> "list", xs |-> xs]
JDict(kvs) == [t |-> "dict", kv |-> kvs]

Pair(k, v) == [k |-> k, v |-> v]

\* key in d
Has(d, k) == \E i \in DOMAIN d.kv : d.kv[i].k = k

\* d[key]
Get(d, k) == d.kv[CHOOSE i \in DOMAIN d.kv : d.kv[i].k = k].v

\* the keys of the mappings met here, in code point order, and their text
KeyOrder == <<"a", "b", "n", "step1", "step2">>

KeyChars ==
    [a |-> <<"a">>, b |-> <<"b">>, n |-> <<"n">>,
     step1 |-> <<"s","t","e","p","1">>, step2 |-> <<"s","t","e","p","2">>]

\* sorted(v.keys())
SortedKeys(d) == SelectSeq(KeyOrder, LAMBDA k : Has(d, k))

DigitChar == <<"0", "1", "2", "3", "4", "5", "6", "7", "8", "9">>

RECURSIVE NatText(_)
\* str(n) for n >= 0
NatText(n) ==
    IF n < 10 THEN <<DigitChar[n + 1]>>
    ELSE NatText(n \div 10) \o <<DigitChar[(n % 10) + 1]>>

\* str(x) for a float of h hundredths: "0.5", "1.0", "0.25"
FloatText(h) ==
    LET a == IF h < 0 THEN 0 - h ELSE h
        frac == a % 100
    IN (IF h < 0 THEN <<"-">> ELSE <<>>) \o NatText(a \div 100) \o <<".">> \o
       (IF frac % 10 = 0 THEN <<DigitChar[(frac \div 10) + 1]>>
        ELSE <<DigitChar[(frac \div 10) + 1], DigitChar[(frac % 10) + 1]>>)

RECURSIVE PyStrOf(_)
RECURSIVE PyRepr(_)
RECURSIVE ReprItems(_, _)
RECURSIVE ReprPairs(_, _)

\* the items of a list display, from item i on
ReprItems(xs, i) ==
    IF i > Len(xs) THEN <<>>
    ELSE (IF i > 1 THEN <<",", " ">> ELSE <<>>) \o PyRepr(xs[i]) \o ReprItems(xs, i + 1)

\* the items of a dict display, from item i on
ReprPairs(kvs, i) ==
    IF i > Len(kvs) THEN <<>>
    ELSE (IF i > 1 THEN <<",", " ">> ELSE <<>>) \o
         <<"'">> \o KeyChars[kvs[i].k] \o <<"'", ":", " ">> \o PyRepr(kvs[i].v) \o
         ReprPairs(kvs, i + 1)

\* repr(value); the texts met here hold no quote and no backslash
PyRepr(x) ==
    CASE x.t = "str" -> <<"'">> \o x.s \o <<"'">>
      [] x.t = "list" -> <<"[">> \o ReprItems(x.xs, 1) \o <<"]">>
      [] x.t = "dict" -> <<"{">> \o ReprPairs(x.kv, 1) \o <<"}">>
      [] OTHER -> PyStrOf(x)

\* str(value)
PyStrOf(x) ==
    CASE x.t = "str" -> x.s
      [] x.t = "null" -> <<"N","o","n","e">>
      [] x.t = "bool" -> IF x.b THEN <<"T","r","u","e">> ELSE <<"F","a","l","s","e">>
      [] x.t = "int" -> IF x.n < 0 THEN <<"-">> \o NatText(0 - x.n) ELSE NatText(x.n)
      [] x.t = "float" -> FloatText(x.h)
      [] OTHER -> PyRepr(x)

----------------------------------------------------------------------------
(* Action schema (agent_models.py) *)

\* the outcome of validating one value
Invalid == [ok |-> FALSE]
Valid(x) == [ok |-> TRUE, value |-> x]

\* str with Field(min_length, max_length): only a str is taken
StrField(x, lo, hi) ==
    IF x.t = "str" /\ Len(x.s) >= lo /\ Len(x.s) <= hi THEN Valid(x) ELSE Invalid

\* the hundredths a number stands for
Hundredths(x) ==
    CASE x.t = "int" -> x.n * 100
      [] x.t = "float" -> x.h
      [] x.t = "bool" -> IF x.b THEN 100 ELSE 0

\* float with Field(ge, le): a number (a bool counts as 0 or 1) whose
\* hundredths are in the range
FloatField(x, range) ==
    IF x.t \in {"int", "float", "bool"} /\ Hundredths(x) \in range
        THEN Valid(JFloat(Hundredths(x)))
        ELSE Invalid

\* datetime: ISO text (two such texts are met here) or seconds since the
\* epoch; dumped as ISO text
DatetimeField(x) ==
    CASE x.t = "str" ->
            IF x.s \in {<<"2025-11-22T10:00:00Z">>, <<"2025-11-23T09:30:00Z">>}
                THEN Valid(x) ELSE Invalid
      [] x.t \in {"int", "float"} ->
            Valid(JStr(<<"1970-01-01T00:00:00Z+">> \o PyStrOf(x) \o <<"s">>))
      [] OTHER -> Invalid

\* bool: true and false, 0 and 1, and the texts that name them
BoolField(x) ==
    CASE x.t = "bool" -> Valid(x)
      [] x.t = "int" -> IF x.n \in {0, 1} THEN Valid(JBool(x.n = 1)) ELSE Invalid
      [] x.t = "str" ->
            IF Lower(x.s) \in {<<"1">>, <<"o","n">>, <<"t">>, <<"t","r","u","e">>,
                               <<"y">>, <<"y","e","s">>}
                THEN Valid(JBool(TRUE))
            ELSE IF Lower(x.s) \in {<<"0">>, <<"o","f","f">>, <<"f">>,
                                    <<"f","a","l","s","e">>, <<"n">>, <<"n","o">>}
                THEN Valid(JBool(FALSE))
            ELSE Invalid
      [] OTHER -> Invalid

\* class ActionType(str, Enum)
ActionType ==
    {<<"c","r","e","a","t","e","_","d","r","i","n","k">>,
     <<"s","e","a","r","c","h","_","d","r","i","n","k">>,
     <<"s","u","g","g","e","s","t","_","d","r","i","n","k">>}

\* action_type: ActionType | None
ActionTypeField(x) ==
    IF x.t = "null" \/ (x.t = "str" /\ x.s \in ActionType) THEN Valid(x) ELSE Invalid

HexDigits ==
    {"0","1","2","3","4","5","6","7","8","9",
     "a","b","c","d","e","f","A","B","C","D","E","F"}

\* color: pattern "^#(?:[0-9a-fA-F]{3}){1,2}$"
ColorField(x) ==
    IF /\ x.t = "str"
       /\ Len(x.s) \in {4, 7}
       /\ x.s[1] = "#"
       /\ \A i \in 2..Len(x.s) : x.s[i] \in HexDigits
        THEN Valid(x)
        ELSE Invalid

\* a required field: the key is there and the outcome of its value is good
Required(d, k, outcome) == IF Has(d, k) THEN outcome ELSE Invalid

\* a field with a default: the default is taken as it is
Defaulted(d, k, outcome, default) == IF Has(d, k) THEN outcome ELSE Valid(default)

\* list[...] with min_items=1, given the outcomes of its items
ListField(x, outcomes) ==
    IF /\ x.t = "list"
       /\ Len(x.xs) >= 1
       /\ \A i \in DOMAIN x.xs : outcomes[i].ok
        THEN Valid(JList([i \in DOMAIN x.xs |-> outcomes[i].value]))
        ELSE Invalid

\* the model built from field outcomes, in the order of declaration
Model(names, outcomes) ==
    IF \A i \in DOMAIN outcomes : outcomes[i].ok
        THEN Valid(JDict([i \in DOMAIN names |-> Pair(names[i], outcomes[i].value)]))
        ELSE Invalid

\* class DrinkIngredient
DrinkIngredient(x) ==
    IF x.t # "dict" THEN Invalid
    ELSE Model(<<"name", "amount", "color", "unit">>,
               <<Required(x, "name", StrField(Get(x, "name"), 1, 100)),
                 Required(x, "amount", FloatField(Get(x, "amount"), Nat \ {0})),
                 Required(x, "color", ColorField(Get(x, "color"))),
                 Required(x, "unit", StrField(Get(x, "unit"), 1, 20))>>)

\* a plain str field
AnyStr(x) == IF x.t = "str" THEN Valid(x) ELSE Invalid

\* class DrinkRecipeSchema.  glass_type is a plain str.  garnish is a str
\* too: None is its default, taken when the key is not there, and not a
\* value the field accepts
DrinkRecipeSchema(x) ==
    IF x.t # "dict" THEN Invalid
    ELSE Model(<<"name", "description", "ingredients", "instructions",
                 "glass_type", "garnish", "has_ice">>,
               <<Required(x, "name", StrField(Get(x, "name"), 1, 100)),
                 Required(x, "description", StrField(Get(x, "description"), 0, 500)),
                 Required(x, "ingredients",
                    ListField(Get(x, "ingredients"),
                        [i \in DOMAIN Get(x, "ingredients").xs |->
                            DrinkIngredient(Get(x, "ingredients").xs[i])])),
                 Required(x, "instructions",
                    ListField(Get(x, "instructions"),
                        [i \in DOMAIN Get(x, "instructions").xs |->
                            AnyStr(Get(x, "instructions").xs[i])])),
                 Defaulted(x, "glass_type", AnyStr(Get(x, "glass_type")),
                           JStr(<<"r","o","c","k","s"," ","g","l","a","s","s">>)),
                 Defaulted(x, "garnish", StrField(Get(x, "garnish"), 0, 100), JNull),
                 Defaulted(x, "has_ice", BoolField(Get(x, "has_ice")), JBool(TRUE))>>)

\* DrinkRecipeSchema | None
OptionalRecipe(x) == IF x.t = "null" THEN Valid(x) ELSE DrinkRecipeSchema(x)

RECURSIVE ReasoningParts(_, _, _)
\* the loop over sorted(v.keys()): str values as they are, dict values
\* through str(), any other value left out
ReasoningParts(d, keys, i) ==
    IF i > Len(keys) THEN <<>>
    ELSE LET value == Get(d, keys[i])
         IN (CASE value.t = "str" -> <<value.s>>
               [] value.t = "dict" -> <<PyStrOf(value)>>
               [] OTHER -> <<>>)
            \o ReasoningParts(d, keys, i + 1)

\* a flattening that puts a str in quotes, as repr does
FlattenWithRepr(x) ==
    IF x.t = "dict"
        THEN JStr(StrJoin(<<" ">>, ReasoningParts(x, SortedKeys(x), 1)))
        ELSE JStr(PyRepr(x))

\* AgentActionSchema.flatten_reasoning (mode='before')
flatten_reasoning(x) ==
    IF x.t = "dict"
        THEN JStr(StrJoin(<<" ">>, ReasoningParts(x, SortedKeys(x), 1)))
        ELSE JStr(PyStrOf(x))

\* a confidence without its range
ConfidenceAnyNumber(x) == FloatField(x, Int)

\* confidence: float = Field(..., ge=0, le=1)
Confidence(x) == FloatField(x, 0..100)

\* class AgentActionSchema: AgentActionSchema(**result); reasoning goes
\* through flatten_reasoning before its length is checked
AgentActionSchema(result) ==
    Model(<<"id", "name", "created_at", "updated_at", "action_type",
            "confidence", "reasoning", "conversation", "drink_recipe",
            "suggest_drink">>,
          <<Required(result, "id", AnyStr(Get(result, "id"))),
            Required(result, "name", AnyStr(Get(result, "name"))),
            Required(result, "created_at", DatetimeField(Get(result, "created_at"))),
            Required(result, "updated_at", DatetimeField(Get(result, "updated_at"))),
            Required(result, "action_type", ActionTypeField(Get(result, "action_type"))),
            Required(result, "confidence", Confidence(Get(result, "confidence"))),
            Required(result, "reasoning",
                     StrField(flatten_reasoning(Get(result, "reasoning")), 0, 1000)),
            Required(result, "conversation", StrField(Get(result, "conversation"), 0, 1000)),
            Defaulted(result, "drink_recipe",
                      OptionalRecipe(Get(result, "drink_recipe")), JNull),
            Defaulted(result, "suggest_drink",
                      OptionalRecipe(Get(result, "suggest_drink")), JNull)>>)

----------------------------------------------------------------------------
(* LLM adapter (engine.py) *)

\* self.personality
personality == <<"You are Arthur, the Three.js PS1 throwback Agentic Bartender">>

\* a structured mode that adds nothing to the prompt
NoSchemaBlock == <<>>

\* the instruction block structured mode adds after the prompt
OutputSchemaBlock == <<"\n[OUTPUT SCHEMA]...Response (JSON only, no other text):\n">>

\* an adapter that hands unparseable text back as the completion
InvokeLlmReturningRawText(prompt, reply, response_schema) ==
    LET sent == <<[contents |-> prompt \o OutputSchemaBlock,
                   system_instruction |-> personality]>>
    IN IF reply.kind = "raise"
           THEN [raised |-> TRUE, error |-> "ProviderError", sent |-> sent]
       ELSE IF ~reply.parses
           THEN [raised |-> FALSE, error |-> "", sent |-> sent,
                 completion |-> JStr(reply.text)]
       ELSE IF reply.json.t # "dict" \/ ~AgentActionSchema(reply.json).ok
           THEN [raised |-> TRUE, error |-> "ValidationError", sent |-> sent]
       ELSE [raised |-> FALSE, error |-> "", sent |-> sent,
             completion |-> AgentActionSchema(reply.json).value]

\* AgenticEngine._invoke_llm.  With a response_schema: one provider call,
\* then json.loads and the schema constructor, which raise on bad text.
\* Without one: the call reads config, a local name that only the other
\* branch binds, so the arguments of generate_content cannot be evaluated.
_invoke_llm(prompt, reply, response_schema) ==
    IF response_schema # "None"
        THEN LET sent == <<[contents |-> prompt \o OutputSchemaBlock,
                            system_instruction |-> personality]>>
             IN IF reply.kind = "raise"
                    THEN [raised |-> TRUE, error |-> "ProviderError", sent |-> sent]
                ELSE IF ~reply.parses
                    THEN [raised |-> TRUE, error |-> "JSONDecodeError", sent |-> sent]
                ELSE IF reply.json.t # "dict"
                    THEN [raised |-> TRUE, error |-> "TypeError", sent |-> sent]
                ELSE IF ~AgentActionSchema(reply.json).ok
                    THEN [raised |-> TRUE, error |-> "ValidationError", sent |-> sent]
                ELSE [raised |-> FALSE, error |-> "", sent |-> sent,
                      completion |-> AgentActionSchema(reply.json).value]
        ELSE [raised |-> TRUE, error |-> "UnboundLocalError", sent |-> <<>>]

(* Replies of the completion provider *)

\* the key is left out
Absent == [t |-> "absent"]

\* the mapping with x under key k, or without the key
Put(d, k, x) ==
    IF x.t = "absent" THEN JDict(SelectSeq(d.kv, LAMBDA p : p.k # k))
    ELSE IF Has(d, k)
        THEN JDict([i \in DOMAIN d.kv |-> IF d.kv[i].k = k THEN Pair(k, x) ELSE d.kv[i]])
        ELSE JDict(Append(d.kv, Pair(k, x)))

Repeat(c, n) == [i \in 1..n |-> c]

ValidIngredient ==
    JDict(<<Pair("name", JStr(<<"g","i","n">>)),
            Pair("amount", JFloat(250)),
            Pair("color", JStr(<<"#","f","f","f">>)),
            Pair("unit", JStr(<<"o","z">>))>>)

ValidRecipe ==
    JDict(<<Pair("name", JStr(<<"M","a","r","t","i","n","i">>)),
            Pair("description", JStr(<<>>)),
            Pair("ingredients", JList(<<ValidIngredient>>)),
            Pair("instructions", JList(<<JStr(<<"s","t","i","r">>)>>)),
            Pair("glass_type", JStr(<<"m","a","r","t","i","n","i"," ","g","l","a","s","s">>)),
            Pair("garnish", JStr(<<"o","l","i","v","e">>)),
            Pair("has_ice", JBool(FALSE))>>)

\* a reply that follows the schema and the instructions of the prompt
ValidAction ==
    JDict(<<Pair("id", JStr(<<"a","1">>)),
            Pair("name", JStr(<<"n">>)),
            Pair("created_at", JStr(<<"2025-11-22T10:00:00Z">>)),
            Pair("updated_at", JStr(<<"2025-11-23T09:30:00Z">>)),
            Pair("action_type", JStr(<<"c","r","e","a","t","e","_","d","r","i","n","k">>)),
            Pair("confidence", JFloat(90)),
            Pair("reasoning", JStr(<<"r">>)),
            Pair("conversation", JStr(<<"c">>)),
            Pair("drink_recipe", ValidRecipe),
            Pair("suggest_drink", JNull)>>)

\* what the provider may put under the keys of the action
ActionEdits ==
    {Pair(k, Absent) : k \in {"id", "name", "created_at", "updated_at", "action_type",
                              "confidence", "reasoning", "conversation",
                              "drink_recipe", "suggest_drink"}}
    \cup {Pair("id", JInt(7)), Pair("created_at", JStr(<<"y","e","s","t","e","r","d","a","y">>)),
          Pair("created_at", JInt(0))}
    \cup {Pair("action_type", x) :
            x \in {JNull, JStr(<<"s","e","a","r","c","h","_","d","r","i","n","k">>),
                   JStr(<<"s","u","g","g","e","s","t","_","d","r","i","n","k">>),
                   JStr(<<"d","e","l","e","t","e","_","d","r","i","n","k">>)}}
    \cup {Pair("confidence", x) :
            x \in {JFloat(0), JFloat(100), JFloat(101), JFloat(-1), JInt(1), JInt(2),
                   JStr(<<"h","i","g","h">>), JNull}}
    \cup {Pair("reasoning", x) :
            x \in {JStr(Repeat("x", 1000)), JStr(Repeat("x", 1001)), JInt(42), JNull,
                   JFloat(50),
                   JDict(<<Pair("step2", JStr(<<"b">>)), Pair("step1", JStr(<<"a">>))>>),
                   JDict(<<Pair("a", JStr(Repeat("x", 600))),
                           Pair("b", JStr(Repeat("y", 600)))>>),
                   JDict(<<Pair("a", JStr(Repeat("x", 500))),
                           Pair("b", JStr(Repeat("y", 499)))>>),
                   JDict(<<Pair("b", JDict(<<Pair("n", JStr(<<"q">>))>>)),
                           Pair("n", JInt(5)),
                           Pair("a", JStr(<<"x">>))>>),
                   JDict(<<>>)}}
    \cup {Pair("conversation", x) :
            x \in {JStr(Repeat("x", 1000)), JStr(Repeat("x", 1001)), JNull,
                   JDict(<<Pair("a", JStr(<<"x">>))>>)}}
    \cup {Pair("drink_recipe", JNull), Pair("suggest_drink", ValidRecipe),
          Pair("suggest_drink", JStr(<<"M">>))}

\* what the provider may put under the keys of a recipe
RecipeEdits ==
    {Pair(k, Absent) : k \in {"name", "description", "ingredients", "instructions",
                              "glass_type", "garnish", "has_ice"}}
    \cup {Pair("name", JStr(<<>>)), Pair("ingredients", JList(<<>>)),
          Pair("instructions", JList(<<>>)),
          Pair("ingredients", JList(<<ValidIngredient, ValidIngredient>>)),
          Pair("glass_type", JStr(<<"c","o","u","p","e"," ","g","l","a","s","s">>)),
          Pair("glass_type", JStr(<<"r","o","c","k","s"," ","g","l","a","s","s">>)),
          Pair("garnish", JNull),
          Pair("garnish", JStr(<<"m","i","n","t">>)),
          Pair("garnish", JStr(<<"u","m","b","r","e","l","l","a">>)),
          Pair("has_ice", JStr(<<"m","a","y","b","e">>))}

\* what the provider may put under the keys of the first ingredient
IngredientEdits ==
    {Pair(k, Absent) : k \in {"name", "amount", "color", "unit"}}
    \cup {Pair("amount", JFloat(0)), Pair("amount", JFloat(1))}
    \cup {Pair("color", JStr(s)) :
            s \in {<<"#","1","2">>, <<"#","a","1","B","2","c","3">>,
                   <<"f","f","f","f">>, <<"#","g","g","g">>, <<"#","F","F","F">>,
                   <<"#","1","2","3","4">>, <<"#","1","2","3","4","5","6","7">>,
                   <<"#","f","f","f","\n">>, <<>>}}

IsRecipe(d, k) == Has(d, k) /\ Get(d, k).t = "dict"

\* the action with one key of recipe k changed
PutInRecipe(d, k, e) ==
    IF IsRecipe(d, k) THEN Put(d, k, Put(Get(d, k), e.k, e.v)) ELSE d

\* the action with one key of the first ingredient of recipe k changed
PutInIngredient(d, k, e) ==
    IF /\ IsRecipe(d, k)
       /\ Has(Get(d, k), "ingredients")
       /\ Get(Get(d, k), "ingredients").t = "list"
       /\ Get(Get(d, k), "ingredients").xs # <<>>
        THEN LET r == Get(d, k)
                 items == Get(r, "ingredients").xs
             IN Put(d, k, Put(r, "ingredients",
                    JList([i \in DOMAIN items |->
                              IF i = 1 THEN Put(items[1], e.k, e.v) ELSE items[i]])))
        ELSE d

RecipeKeys == {"drink_recipe", "suggest_drink"}

RECURSIVE Edited(_)
\* the replies that differ from ValidAction in at most n places
Edited(n) ==
    IF n = 0 THEN {ValidAction}
    ELSE LET before == Edited(n - 1)
         IN before
            \cup {Put(d, e.k, e.v) : d \in before, e \in ActionEdits}
            \cup {PutInRecipe(d, k, e) : d \in before, k \in RecipeKeys, e \in RecipeEdits}
            \cup {PutInIngredient(d, k, e) :
                    d \in before, k \in RecipeKeys, e \in IngredientEdits}

\* the replies that parse: the edited actions, a list and null
SchemaReplies ==
    {[kind |-> "text", parses |-> TRUE, json |-> o] :
        o \in Edited(MaxEdits) \cup {JList(<<>>), JNull}}

LlmReplies ==
    {[kind |-> "raise"],
     [kind |-> "text", parses |-> FALSE, text |-> <<"One Martini, coming up!">>],
     [kind |-> "text", parses |-> TRUE, json |-> Put(ValidAction, "confidence", Absent)],
     [kind |-> "text", parses |-> TRUE, json |-> ValidAction]}

----------------------------------------------------------------------------
(* AgenticEngine.run (engine.py), step by step *)

\* run raises: nothing is returned
Raise(error) ==
    /\ pc' = "raised"
    /\ run_error' = error

\* self.fast_template_selector: the default selector, or the callable the
\* engine was built with, which here answers one name to every input
fast_template_selector(sel, input) ==
    IF sel.kind = "default" THEN _default_selector(input) ELSE sel.returns

\* line 104: template_name = self.fast_template_selector(user_input)
RunSelect ==
    /\ pc = "start"
    /\ template_name' = fast_template_selector(selector, user_input)
    /\ pc' = "selected"
    /\ UNCHANGED <<run_args, example_cache, run_prompt, retrieved_chunks,
                   rag_calls, llm_calls, run_result, run_error>>
    /\ UNCHANGED <<prompt_vars, store_vars, rag_vars, llm_vars, loaders, chat, other_vars>>

\* line 106: prompt = get_prompt_prototype(template_name, user_input)
RunInstantiate ==
    /\ pc = "selected"
    /\ LET got == get_prompt_prototype(template_name, user_input)
       IN IF got.raised
              THEN Raise("ValueError") /\ UNCHANGED run_prompt
              ELSE /\ run_prompt' = got.prompt
                   /\ pc' = "instantiated"
                   /\ UNCHANGED run_error
    /\ UNCHANGED <<run_args, template_name, example_cache, retrieved_chunks,
                   rag_calls, llm_calls, run_result>>
    /\ UNCHANGED <<prompt_vars, store_vars, rag_vars, llm_vars, loaders, chat, other_vars>>

RECURSIVE AppendExamples(_, _, _)
\* lines 113-114: one segment "\n\nExample {idx}:\n{example}" per example
AppendExamples(segments, examples, idx) ==
    IF idx > Len(examples) THEN segments
    ELSE AppendExamples(
            Prompt_append(segments,
                <<"\n\nExample ", Digits[idx], ":\n">> \o examples[idx]),
            examples, idx + 1)

\* lines 109-115: the few-shot block
RunFewShot ==
    /\ pc = "instantiated"
    /\ LET got == _get_few_shot_examples(example_cache, template_name, readable_files)
       IN /\ example_cache' = got.cache
          /\ run_prompt' =
                IF got.examples # <<>>
                    THEN Prompt_append(
                            AppendExamples(
                                Prompt_append(run_prompt, <<"\n\n[FEW-SHOT EXAMPLES]">>),
                                got.examples, 1),
                            <<"\n[END EXAMPLES]\n">>)
                    ELSE run_prompt
    /\ pc' = "few_shot_loaded"
    /\ UNCHANGED <<run_args, template_name, retrieved_chunks, rag_calls,
                   llm_calls, run_result, run_error>>
    /\ UNCHANGED <<prompt_vars, store_vars, rag_vars, llm_vars, loaders, chat, other_vars>>

RECURSIVE AppendChunks(_, _, _)
\* lines 133-134: one segment "\n[RETRIEVED]\n{chunk}" per chunk
AppendChunks(segments, chunks, i) ==
    IF i > Len(chunks) THEN segments
    ELSE AppendChunks(
            Prompt_append(segments, <<"\n[RETRIEVED]\n">> \o chunks[i]),
            chunks, i + 1)

\* a retrieval step that runs for the retrieval_augmented template only
RetrieveForRetrievalTemplateOnly(enabled, name) ==
    enabled /\ name = "retrieval_augmented"

\* line 130: if rag_enabled
ShouldRetrieve(enabled, name) == enabled

\* lines 118-137: the context block, retrieval when enabled, the conversation
RunRetrieve ==
    /\ pc = "few_shot_loaded"
    /\ rag_calls' = IF ShouldRetrieve(rag_enabled, template_name)
                        THEN rag_calls + 1 ELSE rag_calls
    /\ LET out == IF ShouldRetrieve(rag_enabled, template_name)
                     THEN rag_strategy(embed_reply, user_id, tables, fetch_fails,
                                       top_k)
                     ELSE Returns(<<>>)
           chunks == [i \in 1..Len(out.value) |-> out.value[i].content]
           opened == Prompt_append(run_prompt,
                        <<"\n\n[CONTEXT FETCHED FROM ONLINE RAG DATABASE]">>)
           closed == Prompt_append(AppendChunks(opened, chunks, 1),
                        <<"\n[END CONTEXT FETCHED FROM ONLINE RAG DATABASE]\n">>)
       IN IF out.raised
              THEN /\ Raise("RetrievalError")
                   /\ run_prompt' = opened
                   /\ UNCHANGED retrieved_chunks
              ELSE /\ retrieved_chunks' = chunks
                   /\ run_prompt' =
                         Prompt_append(closed, <<"\n[CONVERSATION]\n">> \o user_input)
                   /\ pc' = "prompt_built"
                   /\ UNCHANGED run_error
    /\ UNCHANGED <<run_args, template_name, example_cache, llm_calls, run_result>>
    /\ UNCHANGED <<prompt_vars, store_vars, rag_vars, llm_vars, loaders, chat, other_vars>>

\* a last step that may also be taken as soon as the few-shot block is in,
\* before the context block and the conversation
RunInvokeSkippingRetrieval ==
    /\ pc \in {"few_shot_loaded", "prompt_built"}
    /\ LET got == _invoke_llm(Prompt_as_string(run_prompt, <<"\n">>), llm_reply,
                              "AgentActionSchema")
       IN /\ llm_calls' = llm_calls \o got.sent
          /\ IF got.raised
                 THEN Raise(got.error) /\ UNCHANGED run_result
                 ELSE /\ run_result' =
                            << [template_name |-> template_name,
                                prompt |-> Prompt_as_string(run_prompt, <<"\n">>),
                                completion |-> got.completion,
                                retrieved_chunks |-> retrieved_chunks] >>
                      /\ pc' = "returned"
                      /\ UNCHANGED run_error
    /\ UNCHANGED <<run_args, template_name, example_cache, run_prompt,
                   retrieved_chunks, rag_calls>>
    /\ UNCHANGED <<prompt_vars, store_vars, rag_vars, llm_vars, loaders, chat, other_vars>>

\* lines 140-152: render, call the provider, return the dictionary
RunInvoke ==
    /\ pc = "prompt_built"
    /\ LET got == _invoke_llm(Prompt_as_string(run_prompt, <<"\n">>), llm_reply,
                              "AgentActionSchema")
       IN /\ llm_calls' = llm_calls \o got.sent
          /\ IF got.raised
                 THEN Raise(got.error) /\ UNCHANGED run_result
                 ELSE /\ run_result' =
                            << [template_name |-> template_name,
                                prompt |-> Prompt_as_string(run_prompt, <<"\n">>),
                                completion |-> got.completion,
                                retrieved_chunks |-> retrieved_chunks] >>
                      /\ pc' = "returned"
                      /\ UNCHANGED run_error
    /\ UNCHANGED <<run_args, template_name, example_cache, run_prompt,
                   retrieved_chunks, rag_calls>>
    /\ UNCHANGED <<prompt_vars, store_vars, rag_vars, llm_vars, loaders, chat, other_vars>>

RunStateInit ==
    /\ pc = "start"
    /\ template_name = "none"
    /\ example_cache = [n \in {} |-> <<>>]
    /\ run_prompt = <<>>
    /\ retrieved_chunks = <<>>
    /\ rag_calls = 0
    /\ llm_calls = <<>>
    /\ run_result = <<>>
    /\ run_error = ""

\* one call of _invoke_llm
InvokeLlm ==
    /\ llm_pc = "ready"
    /\ LET got == _invoke_llm(llm_prompt, llm_reply, llm_schema)
       IN /\ llm_out' = <<got>>
          /\ llm_pc' = IF got.raised THEN "raised" ELSE "returned"
    /\ UNCHANGED <<llm_prompt, llm_schema>>
    /\ UNCHANGED <<run_vars, prompt_vars, store_vars, rag_vars, loaders, chat, other_vars>>

LlmIdle ==
    /\ llm_prompt = <<>>
    /\ llm_schema = "None"
    /\ llm_pc = "idle"
    /\ llm_out = <<>>

\* no run is under way
EngineIdle ==
    /\ selector = [kind |-> "default"]
    /\ user_input = <<>>
    /\ user_id = "None"
    /\ rag_enabled = FALSE
    /\ readable_files = {}
    /\ pc = "idle"
    /\ template_name = "none"
    /\ example_cache = [n \in {} |-> <<>>]
    /\ run_prompt = <<>>
    /\ retrieved_chunks = <<>>
    /\ rag_calls = 0
    /\ llm_calls = <<>>
    /\ run_result = <<>>
    /\ run_error = ""

RunIdle == EngineIdle /\ llm_reply = [kind |-> "raise"]

----------------------------------------------------------------------------
(* Concurrent calls of AgenticEngine._get_few_shot_examples (engine.py) *)

\* the callers that share the engine
Callers == {"c1", "c2"}

\* a caller outside _get_few_shot_examples
IdleLoader ==
    [pc |-> "idle", name |-> "none", hit |-> FALSE, i |-> 0, reads |-> 0,
     examples |-> <<>>, result |-> <<>>]

\* lines 229-253: the cache check, and on a miss the start of the loop
LoaderCall(c, name) ==
    /\ loaders[c].pc = "idle"
    /\ loaders' =
          [loaders EXCEPT ![c] =
              IF name \in DOMAIN example_cache
                  THEN [IdleLoader EXCEPT !.pc = "returned", !.name = name,
                                          !.hit = TRUE, !.result = example_cache[name]]
                  ELSE [IdleLoader EXCEPT !.pc = "loading", !.name = name, !.i = 1]]
    /\ UNCHANGED <<run_vars, prompt_vars, store_vars, rag_vars, llm_vars, chat, other_vars>>

\* lines 255-270: one turn of the loop
LoaderRead(c) ==
    /\ loaders[c].pc = "loading"
    /\ loaders[c].i <= Len(example_files(loaders[c].name))
    /\ LET file == example_files(loaders[c].name)[loaders[c].i]
       IN \E outcome \in ReadOutcomes(file, readable_files) :
            LET got == ReadExample(loaders[c].examples, file, outcome)
            IN loaders' =
                  [loaders EXCEPT ![c] =
                      IF got.raised
                          THEN [@ EXCEPT !.pc = "raised", !.reads = @ + 1]
                          ELSE [@ EXCEPT !.examples = got.examples,
                                         !.i = @ + 1, !.reads = @ + 1]]
    /\ UNCHANGED <<run_vars, prompt_vars, store_vars, rag_vars, llm_vars, chat, other_vars>>

\* lines 273-274: the store into the cache and the return
LoaderStore(c) ==
    /\ loaders[c].pc = "loading"
    /\ loaders[c].i > Len(example_files(loaders[c].name))
    /\ example_cache' = StoreExamples(example_cache, loaders[c].name, loaders[c].examples)
    /\ loaders' = [loaders EXCEPT ![c] = [@ EXCEPT !.pc = "returned",
                                                    !.result = loaders[c].examples]]
    /\ UNCHANGED <<run_args, pc, template_name, run_prompt, retrieved_chunks,
                   rag_calls, llm_calls, run_result, run_error>>
    /\ UNCHANGED <<prompt_vars, store_vars, rag_vars, llm_vars, chat, other_vars>>

\* the caller goes on and may call again
LoaderDone(c) ==
    /\ loaders[c].pc \in {"returned", "raised"}
    /\ loaders' = [loaders EXCEPT ![c] = IdleLoader]
    /\ UNCHANGED <<run_vars, prompt_vars, store_vars, rag_vars, llm_vars, chat, other_vars>>

LoaderIdle == loaders = [c \in Callers |-> IdleLoader]

----------------------------------------------------------------------------
(* Chat connection (chat_routes.py, chat_service.py) *)

\* process_user_message: chunk_size
chunk_size == 10

\* the simulated reply to a message that names a cocktail or a drink
ManhattanText ==
    <<"I","'","v","e"," ","c","r","e","a","t","e","d"," ","a"," ","M","a",
      "n","h","a","t","t","a","n"," ","f","o","r"," ","y","o","u","!"," ",
      "H","e","r","e","'","s"," ","t","h","e"," ","r","e","c","i","p","e",
      ":"," ","2"," ","o","z"," ","r","y","e"," ","w","h","i","s","k","e",
      "y",","," ","1"," ","o","z"," ","s","w","e","e","t"," ","v","e","r",
      "m","o","u","t","h",","," "," ","2"," ","d","a","s","h","e","s"," ",
      "A","n","g","o","s","t","u","r","a"," ","b","i","t","t","e","r","s",
      "."," ","S","t","i","r"," ","w","i","t","h"," ","i","c","e"," ","a",
      "n","d"," ","s","t","r","a","i","n"," ","i","n","t","o"," ","a"," ",
      "c","h","i","l","l","e","d"," ","c","o","u","p","e"," ","g","l","a",
      "s","s","."," ","G","a","r","n","i","s","h"," ","w","i","t","h"," ",
      "a"," ","c","h","e","r","r","y",".">>

ReceivedPrefix ==
    <<"R","e","c","e","i","v","e","d"," ","y","o","u","r"," ","m","e","s",
      "s","a","g","e",":"," ">>

NoContentText ==
    <<"N","o"," ","c","o","n","t","e","n","t"," ","p","r","o","v","i","d",
      "e","d">>

\* an Optional[str] is <<>> for None and <<s>> for the string s
None == <<>>

\* a verification that takes every token for the first user's
AuthenticateAnyToken(token) == "alice"

\* authenticate_message: the user the token verifies as, "None" when
\* verification fails or gives nothing
authenticate_message(token) ==
    CASE token = "alice_token" -> "alice"
      [] token = "bob_token"   -> "bob"
      [] OTHER                 -> "None"

\* model_dump() of a frame; the fields the frame's model lacks are at rest
Frame(type) ==
    [type |-> type, message_id |-> 0, content |-> JNull, delta |-> None,
     complete |-> "None", error |-> "", code |-> 0]

\* OutgoingMessage(...): the frame, or a ValidationError when content is
\* neither None nor a dict
OutgoingMessage(type, message_id, content, delta, complete) ==
    IF content.t \in {"null", "dict"}
        THEN [ok |-> TRUE,
              frame |-> [Frame(type) EXCEPT !.message_id = message_id,
                                            !.content = content,
                                            !.delta = delta,
                                            !.complete = complete]]
        ELSE [ok |-> FALSE, frame |-> Frame("none")]

\* create_error_message
create_error_message(error_type, code) ==
    [Frame("error") EXCEPT !.error = error_type, !.code = code]

\* the endpoint after websocket.accept(), called with the query token
ChatStart(token) ==
    [pc |-> "accepted", token |-> token, user |-> "None", message_count |-> 0,
     received |-> 0, message |-> [kind |-> "none"], message_id |-> 0,
     response_text |-> <<>>, offset |-> 0, sent |-> <<>>, close_code |-> 0]

\* chat_websocket lines 78-95 with handle_chat_connection
Connected(session) ==
    IF session.token = None \/ session.token = <<"">>
        THEN [session EXCEPT !.sent = Append(@, create_error_message("missing_token", 1008)),
                             !.close_code = 1008, !.pc = "closed"]
    ELSE IF authenticate_message(session.token[1]) = "None"
        THEN [session EXCEPT !.sent = Append(@, create_error_message("authentication_failed", 1008)),
                             !.close_code = 1008, !.pc = "closed"]
    ELSE [session EXCEPT !.user = authenticate_message(session.token[1]),
                         !.sent = Append(@, Frame("connected")),
                         !.pc = "open"]

\* process_user_message lines 420-438: the simulated response
response_text(content) ==
    IF content # None /\ content[1] # <<>>
        THEN IF In(<<"c","o","c","k","t","a","i","l">>, Lower(content[1]))
                  \/ In(<<"d","r","i","n","k">>, Lower(content[1]))
                 THEN ManhattanText
                 ELSE ReceivedPrefix \o content[1]
        ELSE NoContentText

\* handle_message lines 536-579 on the message just read, up to the first
\* frame of process_user_message
Dispatch(session, data) ==
    IF ~data.object
        THEN [session EXCEPT !.sent = Append(@, create_error_message("message_processing_failed", 1011))]
    ELSE IF data.token # None /\ data.token # <<"">>
            /\ authenticate_message(data.token[1]) = "None"
        THEN [session EXCEPT !.sent = Append(@, create_error_message("authentication_expired", 1008)),
                             !.close_code = 1008, !.pc = "closed"]
    ELSE IF data.token # None /\ data.token # <<"">>
            /\ authenticate_message(data.token[1]) # session.user
        THEN [session EXCEPT !.sent = Append(@, create_error_message("authentication_mismatch", 1008)),
                             !.close_code = 1008, !.pc = "closed"]
    ELSE IF data.type = "user"
        THEN [session EXCEPT
                !.message_count = @ + 1,
                !.message_id = session.message_count + 1,
                !.sent = Append(@, OutgoingMessage("stream_start", session.message_count + 1,
                                                   JNull, None, "None").frame),
                !.response_text = response_text(data.content),
                !.offset = IF data.content # None /\ data.content[1] # <<>>
                               THEN 0 ELSE Len(NoContentText),
                !.pc = "streaming"]
    ELSE session

\* chat_websocket lines 101-136: one turn of the message loop, to the point
\* where the message is handled or its response starts
Received(session, data) ==
    LET read == [session EXCEPT !.received = @ + 1, !.message = data]
    IN CASE data.kind = "disconnect" -> [read EXCEPT !.pc = "closed"]
         [] data.kind = "invalid" ->
              [read EXCEPT !.sent = Append(@, create_error_message("invalid_message_format", 1003))]
         [] data.kind = "json" -> Dispatch(read, data)

\* process_user_message lines 429-436: one chunk of the response
Streamed(session) ==
    LET upto == IF session.offset + chunk_size < Len(session.response_text)
                    THEN session.offset + chunk_size ELSE Len(session.response_text)
        chunk == SubSeq(session.response_text, session.offset + 1, upto)
    IN [session EXCEPT
          !.sent = Append(@, OutgoingMessage("stream_delta", session.message_id,
                                             JNull, <<chunk>>, "False").frame),
          !.offset = upto]

\* process_user_message lines 441-457 and handle_message lines 579-589: the
\* closing frame.  process_agent_response_with_cocktail_detection gives a
\* dictionary whose content is the response text; a frame that fails its
\* validation raises, first into the generator's except clause, whose own
\* frame takes a fresh message id, then into handle_message's.
Ended(session) ==
    LET stream_end == OutgoingMessage("stream_end", session.message_id,
                                      JStr(session.response_text), None, "True")
        failed == OutgoingMessage("error", session.message_count + 1,
                                  JStr(<<"Failed to process message">>), None, "None")
    IN IF stream_end.ok
           THEN [session EXCEPT !.sent = Append(@, stream_end.frame), !.pc = "open"]
       ELSE IF failed.ok
           THEN [session EXCEPT !.message_count = @ + 1,
                                !.sent = Append(@, failed.frame), !.pc = "open"]
       ELSE [session EXCEPT !.message_count = @ + 1,
                            !.sent = Append(@, create_error_message("message_processing_failed", 1011)),
                            !.pc = "open"]

\* the endpoint up to the message loop
ChatConnect ==
    /\ chat.pc = "accepted"
    /\ chat' = Connected(chat)
    /\ UNCHANGED <<run_vars, prompt_vars, store_vars, rag_vars, llm_vars, loaders, other_vars>>

\* a message is read and handled, or its response starts
ChatReceive(data) ==
    /\ chat.pc = "open"
    /\ chat.received < MaxMessages
    /\ chat' = Received(chat, data)
    /\ UNCHANGED <<run_vars, prompt_vars, store_vars, rag_vars, llm_vars, loaders, other_vars>>

\* the next stream_delta frame is sent
ChatDelta ==
    /\ chat.pc = "streaming"
    /\ chat.offset < Len(chat.response_text)
    /\ chat' = Streamed(chat)
    /\ UNCHANGED <<run_vars, prompt_vars, store_vars, rag_vars, llm_vars, loaders, other_vars>>

\* the response is closed and the loop goes back to reading
ChatEnd ==
    /\ chat.pc = "streaming"
    /\ chat.offset >= Len(chat.response_text)
    /\ chat' = Ended(chat)
    /\ UNCHANGED <<run_vars, prompt_vars, store_vars, rag_vars, llm_vars, loaders, other_vars>>

\* no connection
ChatIdle == chat = [ChatStart(None) EXCEPT !.pc = "idle"]

----------------------------------------------------------------------------
(* Chat connections side by side (chat_routes.py) *)

\* the connections open at the same time
Connections == {"k1", "k2"}

\* what the clients of the connections side by side send
SessionInbound ==
    {[kind |-> "disconnect"],
     [kind |-> "json", object |-> TRUE, type |-> "user",
      content |-> <<<<"h","i">>>>, token |-> None],
     [kind |-> "json", object |-> TRUE, type |-> "user",
      content |-> None, token |-> None]}

\* sessions whose message counter is one counter for all connections
SessionsSharingCounter(all, c, new) ==
    [d \in DOMAIN all |->
        IF d = c THEN new ELSE [all[d] EXCEPT !.message_count = new.message_count]]

\* each call of chat_websocket holds its session in a local: what one
\* connection does changes its own session
SessionsAfter(all, c, new) == [all EXCEPT ![c] = new]

\* one step of the endpoint for connection c; the event loop switches
\* between connections at every await
SessionStep(c) ==
    /\ \/ /\ sessions[c].pc = "accepted"
          /\ sessions' = SessionsAfter(sessions, c, Connected(sessions[c]))
       \/ /\ sessions[c].pc = "open"
          /\ sessions[c].received < MaxMessages
          /\ \E data \in SessionInbound :
                sessions' = SessionsAfter(sessions, c, Received(sessions[c], data))
       \/ /\ sessions[c].pc = "streaming"
          /\ sessions[c].offset < Len(sessions[c].response_text)
          /\ sessions' = SessionsAfter(sessions, c, Streamed(sessions[c]))
       \/ /\ sessions[c].pc = "streaming"
          /\ sessions[c].offset >= Len(sessions[c].response_text)
          /\ sessions' = SessionsAfter(sessions, c, Ended(sessions[c]))
    /\ UNCHANGED <<run_vars, prompt_vars, store_vars, rag_vars, llm_vars, loaders,
                   chat, factory>>

SessionsIdle == sessions = [c \in Connections |-> [ChatStart(None) EXCEPT !.pc = "idle"]]

----------------------------------------------------------------------------
(* Engine factory (factory.py) *)

\* AgenticEngine.__init__ lines 44-53: what a new engine holds
NewEngine == [example_cache |-> [n \in {} |-> <<>>]]

\* the module after import: _engine_instance is None (0), no engine was
\* built; returned and built are the engines handed out and the number
\* built since the last reset
FactoryStart ==
    [instance |-> 0, engines |-> <<>>, returned |-> <<>>, built |-> 0, calls |-> 0]

\* a factory that builds an engine at every call
GetBuildingEveryTime(f) ==
    [f EXCEPT !.instance = Len(f.engines) + 1,
              !.engines = Append(@, NewEngine),
              !.returned = Append(@, Len(f.engines) + 1),
              !.built = @ + 1]

\* get_agentic_engine
get_agentic_engine(f) ==
    IF f.instance = 0
        THEN [f EXCEPT !.instance = Len(f.engines) + 1,
                       !.engines = Append(@, NewEngine),
                       !.returned = Append(@, Len(f.engines) + 1),
                       !.built = @ + 1]
        ELSE [f EXCEPT !.returned = Append(@, f.instance)]

\* reset_agentic_engine
reset_agentic_engine(f) ==
    [f EXCEPT !.instance = 0, !.returned = <<>>, !.built = 0]

FactoryGet ==
    /\ factory.calls < MaxFactoryCalls
    /\ factory' = [get_agentic_engine(factory) EXCEPT !.calls = @ + 1]
    /\ UNCHANGED <<run_vars, prompt_vars, store_vars, rag_vars, llm_vars, loaders,
                   chat, sessions>>

FactoryReset ==
    /\ factory.calls < MaxFactoryCalls
    /\ factory' = [reset_agentic_engine(factory) EXCEPT !.calls = @ + 1]
    /\ UNCHANGED <<run_vars, prompt_vars, store_vars, rag_vars, llm_vars, loaders,
                   chat, sessions>>

\* the engine handed out last loads the examples of a template
FactoryLoad(name) ==
    /\ factory.instance # 0
    /\ factory' =
          [factory EXCEPT !.engines[factory.instance].example_cache =
              _get_few_shot_examples(@, name, ExampleFiles).cache]
    /\ UNCHANGED <<run_vars, prompt_vars, store_vars, rag_vars, llm_vars, loaders,
                   chat, sessions>>

FactoryInit == factory = FactoryStart

----------------------------------------------------------------------------
(* Inputs *)

\* fragments the selector inputs are concatenated from
Vocabulary ==
    {<<"W","h","a","t"," ","c","a","n"," ","y","o","u"," ">>,
     <<"m","a","k","e"," ","m","e","?">>,
     <<"M","a","k","e"," ","m","e">>,
     <<"C","R","E","A","T","E">>,
     <<"p","r","e","p","a","r","e">>,
     <<"m","i">>,
     <<"X">>,
     <<"b","u","i","l","d">>,
     <<"R","e","c","o","m","m","e","n","d">>,
     <<"I"," ","w","a","n","t">>,
     <<"i","'","d"," ","l","i","k","e">>,
     <<"s","u","m","m","a","r","i","z","e">>,
     <<"A","c","t","i","o","n">>,
     <<"d","o"," ","t","h","i","s">>,
     <<"c","o","n","t","e","x","t">>,
     <<"d","o","c","s">>,
     <<"d","o","c","u","m","e","n","t">>,
     <<"r","e","t","r","i","e","v","e">>,
     <<"R","e","f","e","r","e","n","c","e">>,
     <<"h","o","w">>,
     <<"W","h","y">>,
     <<"w","h","a","t">>,
     <<"w","h","o">>,
     <<"w","h","e","r","e">>,
     <<"?">>,
     <<"z","z","z">>,
     <<" ">>}

RECURSIVE Concatenations(_)
\* the texts made of at most n fragments
Concatenations(n) ==
    IF n = 0 THEN {<<>>}
    ELSE Concatenations(n - 1)
            \cup {a \o f : a \in Concatenations(n - 1), f \in Vocabulary}

SelectorInputs == Concatenations(MaxFrags)

\* inputs of the whole run: one per branch of the selector
RunInputs ==
    {<<"M","a","k","e"," ","m","e">>,
     <<"s","u","m","m","a","r","i","z","e">>,
     <<"d","o","c","s">>,
     <<"w","h","a","t">>,
     <<"z","z","z","?">>,
     <<"z","z","z">>}

StoreRow(content, text) == [content |-> content, embedding |-> PyStr(text)]

RunStores ==
    {[name \in TableNames |-> <<>>],
     [name \in TableNames |->
        CASE name = "saq_product_embedding" ->
                <<StoreRow(<<"s","1">>, "[1, 0]"), StoreRow(<<"s","2">>, "[1, 1]")>>
          [] name = "ingredient_embedding" -> <<>>
          [] name = "cocktail_embedding" -> <<StoreRow(<<"c","1">>, "[1, 1]")>>],
     [name \in TableNames |->
        CASE name = "saq_product_embedding" ->
                <<StoreRow(<<"s","1">>, "[1, 0]"), StoreRow(<<"s","2">>, "oops")>>
          [] OTHER -> <<>>]}

----------------------------------------------------------------------------
(* Specifications *)

\* the names a selector given to the engine may answer: the registered
\* names and one that is not registered
SelectorAnswers ==
    {"classic_completion", "retrieval_augmented", "question_answering",
     "action_generation", "summarization", "chat_style", "haiku"}

\* the user_id values run is called with: left out, or a user's
UserIds == {"None", "alice", "bob"}

Selectors ==
    {[kind |-> "default"]} \cup {[kind |-> "custom", returns |-> n] : n \in SelectorAnswers}

RunArgsInit ==
    /\ selector \in Selectors
    /\ user_input \in IF selector.kind = "default" THEN RunInputs ELSE {<<"z","z","z">>}
    /\ user_id \in UserIds
    /\ rag_enabled \in BOOLEAN
    /\ llm_reply \in LlmReplies
    /\ readable_files \in
          {ExampleFiles, {}, ExampleFiles \ {"create_drink_example.txt"}}

RunStoreInit ==
    /\ tables \in RunStores
    /\ fetch_fails \in {{}, {"ingredient_embedding"}}
    /\ embed_reply \in
          {[kind |-> "raise"], [kind |-> "vector", value |-> <<1, 0>>],
           [kind |-> "vector", value |-> <<1, 1>>]}
    /\ top_k \in {1, 2}

Init ==
    /\ RunArgsInit /\ RunStateInit
    /\ RunStoreInit /\ RagIdle
    /\ PromptIdle /\ LlmIdle
    /\ LoaderIdle /\ ChatIdle
    /\ SessionsIdle /\ FactoryInit

Next ==
    \/ RunSelect
    \/ RunInstantiate
    \/ RunFewShot
    \/ RunRetrieve
    \/ RunInvoke

\* one call of AgenticEngine.run
Spec == Init /\ [][Next]_vars

SelInit ==
    /\ selector = [kind |-> "default"]
    /\ user_input \in SelectorInputs
    /\ user_id = "None"
    /\ rag_enabled = FALSE
    /\ llm_reply = [kind |-> "raise"]
    /\ readable_files = {}
    /\ RunStateInit
    /\ StoreIdle /\ RagIdle
    /\ PromptIdle /\ LlmIdle
    /\ LoaderIdle /\ ChatIdle
    /\ SessionsIdle /\ FactoryInit

SelNext ==
    \/ RunSelect
    \/ RunInstantiate

\* the first two steps of run, the selector and the registry, on every input
SpecSel == SelInit /\ [][SelNext]_vars

\* a Prompt under its mutations
PromptSpecInit ==
    PromptInit /\ RunIdle /\ StoreIdle /\ RagIdle /\ LlmIdle /\ LoaderIdle /\ ChatIdle
    /\ SessionsIdle /\ FactoryInit

SpecPrompt == PromptSpecInit /\ [][PromptNext]_vars

\* one call of the retrieval strategy on every store
RagSpecInit ==
    StoreInit /\ RagInit /\ RunIdle /\ PromptIdle /\ LlmIdle /\ LoaderIdle /\ ChatIdle
    /\ SessionsIdle /\ FactoryInit

SpecRag == RagSpecInit /\ [][RagNext]_vars

SchemaInit ==
    /\ selector = [kind |-> "default"]
    /\ user_input = <<"z","z","z">>
    /\ user_id = "None"
    /\ rag_enabled = FALSE
    /\ llm_reply \in SchemaReplies
    /\ readable_files = {}
    /\ RunStateInit
    /\ StoreIdle /\ RagIdle
    /\ PromptIdle /\ LlmIdle
    /\ LoaderIdle /\ ChatIdle
    /\ SessionsIdle /\ FactoryInit

\* one call of run on every reply of the provider that parses
SpecSchema == SchemaInit /\ [][Next]_vars

LlmInit ==
    /\ llm_prompt \in RunInputs
    /\ llm_schema \in {"None", "AgentActionSchema"}
    /\ llm_reply \in LlmReplies \cup SchemaReplies
    /\ llm_pc = "ready"
    /\ llm_out = <<>>
    /\ EngineIdle
    /\ StoreIdle /\ RagIdle
    /\ PromptIdle
    /\ LoaderIdle /\ ChatIdle
    /\ SessionsIdle /\ FactoryInit

LlmNext == InvokeLlm

\* one call of the adapter, with and without a response schema
SpecLlm == LlmInit /\ [][LlmNext]_vars

\* the names _get_few_shot_examples is called with: the registered ones and
\* one the registry does not know
CacheNames == DOMAIN PROMPT_PROTOTYPE_REGISTRY \cup {"haiku"}

CacheInit ==
    /\ loaders = [c \in Callers |-> IdleLoader]
    /\ readable_files \in
          {ExampleFiles, {}, ExampleFiles \ {"create_drink_example.txt"}}
    /\ selector = [kind |-> "default"]
    /\ user_input = <<>>
    /\ user_id = "None"
    /\ rag_enabled = FALSE
    /\ llm_reply = [kind |-> "raise"]
    /\ pc = "idle"
    /\ template_name = "none"
    /\ example_cache = [n \in {} |-> <<>>]
    /\ run_prompt = <<>>
    /\ retrieved_chunks = <<>>
    /\ rag_calls = 0
    /\ llm_calls = <<>>
    /\ run_result = <<>>
    /\ run_error = ""
    /\ StoreIdle /\ RagIdle
    /\ PromptIdle /\ LlmIdle
    /\ ChatIdle
    /\ SessionsIdle /\ FactoryInit

CacheNext ==
    \/ \E c \in Callers, name \in CacheNames : LoaderCall(c, name)
    \/ \E c \in Callers : LoaderRead(c)
    \/ \E c \in Callers : LoaderStore(c)
    \/ \E c \in Callers : LoaderDone(c)

\* callers of _get_few_shot_examples on one engine, interleaved
SpecCache == CacheInit /\ [][CacheNext]_vars

\* the tokens a client connects with: none, a user's and one that expired
ConnTokens == {None, <<"alice_token">>, <<"expired_token">>}

\* what a client types
Contents ==
    {None, <<<<>>>>, <<<<"h","i">>>>, <<<<"A"," ","D","r","i","n","k">>>>,
     <<<<"c","o","c","k","t","a","i","l","s","?">>>>}

\* what receive_json gives: the client went away, text that is not JSON, a
\* JSON value that is not an object, or an object
Inbound ==
    {[kind |-> "disconnect"], [kind |-> "invalid"], [kind |-> "json", object |-> FALSE]}
    \cup {[kind |-> "json", object |-> TRUE, type |-> "user", content |-> c, token |-> t] :
              c \in Contents,
              t \in {None, <<"alice_token">>, <<"bob_token">>, <<"expired_token">>}}
    \cup {[kind |-> "json", object |-> TRUE, type |-> y, content |-> None, token |-> t] :
              y \in {"typing", "system"}, t \in {None, <<"expired_token">>}}

ChatInit ==
    /\ chat \in {ChatStart(t) : t \in ConnTokens}
    /\ RunIdle
    /\ StoreIdle /\ RagIdle
    /\ PromptIdle /\ LlmIdle
    /\ LoaderIdle
    /\ SessionsIdle /\ FactoryInit

ChatNext ==
    \/ ChatConnect
    \/ \E data \in Inbound : ChatReceive(data)
    \/ ChatDelta
    \/ ChatEnd

\* one chat connection, from accept to close
SpecChat == ChatInit /\ [][ChatNext]_vars

SessionsInit ==
    /\ sessions = [c \in Connections |->
                      ChatStart(IF c = "k1" THEN <<"alice_token">> ELSE <<"bob_token">>)]
    /\ RunIdle
    /\ StoreIdle /\ RagIdle
    /\ PromptIdle /\ LlmIdle
    /\ LoaderIdle /\ ChatIdle
    /\ FactoryInit

SessionsNext == \E c \in Connections : SessionStep(c)

\* two chat connections of two users, interleaved
SpecSessions == SessionsInit /\ [][SessionsNext]_vars

FactorySpecInit ==
    /\ FactoryInit
    /\ RunIdle
    /\ StoreIdle /\ RagIdle
    /\ PromptIdle /\ LlmIdle
    /\ LoaderIdle /\ ChatIdle
    /\ SessionsIdle

FactoryNext ==
    \/ FactoryGet
    \/ FactoryReset
    \/ \E name \in {"chat_style", "classic_completion", "summarization"} :
            FactoryLoad(name)

\* calls of the factory in any order, the engine in use between them
SpecFactory == FactorySpecInit /\ [][FactoryNext]_vars

----------------------------------------------------------------------------
(* Claims about the selector and the registry *)

\* phrase occurs in text, letter case ignored
ContainsIgnoringCase(text, phrase) ==
    \E i \in 0..(Len(text) - Len(phrase)) :
        \A j \in 1..Len(phrase) : LowerChar(text[i + j]) = phrase[j]

HasDrinkPhrase(text) ==
    \E phrase \in drink_keywords : ContainsIgnoringCase(text, phrase)

WhatCanYouMakeMe ==
    <<"W","h","a","t"," ","c","a","n"," ","y","o","u"," ",
      "m","a","k","e"," ","m","e","?">>

\* C1: every input that contains a drink-creation phrase, in any letter
\* case, is given 'action_generation', whatever else it contains.
C1_DrinkPhraseWins ==
    (pc # "start" /\ HasDrinkPhrase(user_input))
        => template_name = "action_generation"

\* 'What can you make me?': a question word, a trailing '?' and a phrase
C1_Witness ==
    /\ pc = "selected"
    /\ user_input = WhatCanYouMakeMe
    /\ template_name = "action_generation"

\* the template the ordered rules give to a text without a drink phrase
FirstMatchingRule(text) ==
    CASE ContainsIgnoringCase(text, KwSummarize) -> "summarization"
      [] ~ContainsIgnoringCase(text, KwSummarize)
           /\ (ContainsIgnoringCase(text, KwAction)
                \/ ContainsIgnoringCase(text, KwDoThis)) -> "action_generation"
      [] ~ContainsIgnoringCase(text, KwSummarize)
           /\ ~ContainsIgnoringCase(text, KwAction)
           /\ ~ContainsIgnoringCase(text, KwDoThis)
           /\ (\E w \in context_keywords : ContainsIgnoringCase(text, w))
           -> "retrieval_augmented"
      [] ~ContainsIgnoringCase(text, KwSummarize)
           /\ ~ContainsIgnoringCase(text, KwAction)
           /\ ~ContainsIgnoringCase(text, KwDoThis)
           /\ ~(\E w \in context_keywords : ContainsIgnoringCase(text, w))
           /\ ((\E w \in question_keywords : ContainsIgnoringCase(text, w))
                \/ (text # <<>> /\ text[Len(text)] = "?"))
           -> "question_answering"
      [] OTHER -> "classic_completion"

\* C2: an input without a drink-creation phrase is given the template of
\* the first matching rule: summarize, then action / do this, then the
\* context words, then the question words or a trailing '?', else
\* 'classic_completion'; '' and 'zzz' give 'classic_completion'.
C2_FirstMatchWins ==
    (pc # "start" /\ ~HasDrinkPhrase(user_input))
        => /\ template_name = FirstMatchingRule(user_input)
           /\ user_input \in {<<>>, <<"z","z","z">>}
                 => template_name = "classic_completion"

\* 'Actiondocs' matches the second and the third rule: the second wins
C2_Witness ==
    /\ pc = "selected"
    /\ user_input = <<"A","c","t","i","o","n","d","o","c","s">>
    /\ template_name = "action_generation"

\* C3: every value the default selector returns is a key of the registry,
\* so get_prompt_prototype does not raise in run, for any input.
C3_SelectorOutputIsRegistered ==
    /\ pc # "start" => template_name \in DOMAIN PROMPT_PROTOTYPE_REGISTRY
    /\ pc # "raised"
    /\ pc = "instantiated" =>
          run_prompt = << <<PROMPT_PROTOTYPE_REGISTRY[template_name]>> >>

C3_Witness ==
    /\ pc = "instantiated"
    /\ template_name = "summarization"
    /\ run_prompt = << <<"get_summarization_prompt">> >>

----------------------------------------------------------------------------
(* Claims about Prompt *)

RECURSIVE SegmentsOf(_)
\* The segment sequence a history of mutations defines: prepend inserts at
\* the front, append at the end, set replaces all, clear removes all.
SegmentsOf(ops) ==
    IF ops = <<>> THEN <<>>
    ELSE LET prev == SegmentsOf(SubSeq(ops, 1, Len(ops) - 1))
             o    == ops[Len(ops)]
         IN CASE o.op = "init"    -> IF o.arg = <<>> THEN <<>> ELSE <<o.arg>>
              [] o.op = "prepend" -> <<o.arg>> \o prev
              [] o.op = "append"  -> prev \o <<o.arg>>
              [] o.op = "set"     -> o.arg
              [] o.op = "clear"   -> <<>>

RECURSIVE JoinNonEmpty(_, _)
\* The non-empty segments in order, one separator between two of them.
JoinNonEmpty(segs, sep) ==
    IF segs = <<>> THEN <<>>
    ELSE IF Head(segs) = <<>> THEN JoinNonEmpty(Tail(segs), sep)
    ELSE IF \A i \in 2..Len(segs) : segs[i] = <<>> THEN Head(segs)
    ELSE Head(segs) \o sep \o JoinNonEmpty(Tail(segs), sep)

\* C4: after any sequence of prepend, append, set and clear, as_string()
\* is the separator-joined concatenation of the non-empty segments of the
\* sequence those operations define.
C4_RenderIsJoinOfDefinedSegments ==
    Prompt_as_string(p_segments, p_sep)
        = JoinNonEmpty(SegmentsOf(p_ops), p_sep)

\* The same statement for histories in which no appended part ends with
\* the character U+0000.
AppendsNulFree ==
    \A i \in 1..Len(p_ops) :
        p_ops[i].op = "append" => StripTrailingNul(p_ops[i].arg) = p_ops[i].arg

RenderIsJoinWhenAppendsNulFree ==
    AppendsNulFree => C4_RenderIsJoinOfDefinedSegments

\* segments ['a', '', 'b'] with separator "\n" render to "a\nb"
RenderExample ==
    (p_segments = << <<"a">>, <<>>, <<"b">> >> /\ p_sep = <<"\n">>)
        => Prompt_as_string(p_segments, p_sep) = <<"a", "\n", "b">>

RenderExampleReached ==
    /\ p_segments = << <<"a">>, <<>>, <<"b">> >>
    /\ p_sep = <<"\n">>
    /\ Len(p_ops) = 4

----------------------------------------------------------------------------
(* Claims about retrieval *)

\* the rows a call fetches: <<table, rank>> of the first
\* max(top_k * 10, top_k) rows of every table
FetchedRowIds ==
    {id \in TableNames \X (1..MaxRows + 1) :
        /\ id[2] <= Len(tables[id[1]])
        /\ id[2] <= 10 * top_k}

RowAt(id) == tables[id[1]][id[2]]

\* missing, empty or zero-norm embedding
DegenerateEmbedding(row) ==
    row.embedding \in {PyNone, PyStr(""), PyStr("[]"), PyStr("[0, 0]")}

\* an embedding that cannot be decoded, or cannot be scored against the
\* two-component query
RaisingEmbedding(row) == row.embedding \in {PyStr("oops"), PyStr("[1]")}

ValidCandidate(row) == ~DegenerateEmbedding(row) /\ ~RaisingEmbedding(row)

QueryUsable == embed_reply.kind = "vector" /\ embed_reply.value # <<>>

\* some step of the retrieval raises
SomeStepRaises ==
    \/ embed_reply.kind = "raise"
    \/ /\ QueryUsable
       /\ \/ fetch_fails # {}
          \/ \E id \in FetchedRowIds : RaisingEmbedding(RowAt(id))

ScoreOf(row) ==
    cosine_similarity(embed_reply.value, LiteralEval(row.embedding.text).value).score

ResultContents == {rag_result[i].content : i \in 1..Len(rag_result)}

CandidateIds == {id \in FetchedRowIds : ValidCandidate(RowAt(id))}

\* C5: for every top_k >= 0 and every content of the tables the call
\* returns at most top_k results, their scores in non-increasing order.
C5_AtMostTopKSortedDescending ==
    rag_pc # "ready" =>
        /\ rag_pc = "returned"
        /\ Len(rag_result) <= top_k
        /\ \A i \in 1..(Len(rag_result) - 1) :
              rag_result[i].score >= rag_result[i + 1].score

\* two candidates and top_k = 1: the list is truncated
C5_Witness ==
    /\ rag_pc = "returned"
    /\ top_k = 1
    /\ Len(rag_result) = 1
    /\ Cardinality(CandidateIds) = 2

\* C6: the result is the global top_k of the valid candidates pooled from
\* all tables: every result is a fetched valid candidate with its score, no
\* candidate left out scores strictly higher than a returned one, and when
\* nothing raised the result has min(top_k, number of candidates) entries,
\* whatever tables they come from.
C6_GlobalTopK ==
    rag_pc = "returned" =>
        /\ \A i \in 1..Len(rag_result) :
              \E id \in CandidateIds :
                  /\ RowAt(id).content = rag_result[i].content
                  /\ ScoreOf(RowAt(id)) = rag_result[i].score
        /\ \A i, j \in 1..Len(rag_result) :
              i # j => rag_result[i].content # rag_result[j].content
        /\ \A id \in CandidateIds :
              RowAt(id).content \notin ResultContents =>
                  \A i \in 1..Len(rag_result) :
                      ScoreOf(RowAt(id)) <= rag_result[i].score
        /\ (QueryUsable /\ ~SomeStepRaises) =>
              Len(rag_result) = Min(top_k, Cardinality(CandidateIds))

\* the last table supplies the whole result and a candidate of the first
\* table, scoring strictly lower, is left out
C6_Witness ==
    /\ rag_pc = "returned"
    /\ top_k = 1
    /\ Len(rag_result) = 1
    /\ rag_result[1].content[1] = "c"
    /\ \E id \in CandidateIds :
          /\ id[1] = "saq_product_embedding"
          /\ ScoreOf(RowAt(id)) < rag_result[1].score

\* C7: if any step of retrieval raises, the call returns the empty
\* sequence: no exception reaches the caller and no partial result is
\* returned.
C7_AnyExceptionGivesEmpty ==
    (rag_pc # "ready" /\ SomeStepRaises) =>
        (rag_pc = "returned" /\ rag_result = <<>>)

\* a row raises after an earlier row of the same table was scored
C7_Witness ==
    /\ rag_pc = "returned"
    /\ rag_result = <<>>
    /\ QueryUsable
    /\ fetch_fails = {}
    /\ top_k >= 1
    /\ Len(tables["saq_product_embedding"]) = 2
    /\ ValidCandidate(tables["saq_product_embedding"][1])
    /\ RaisingEmbedding(tables["saq_product_embedding"][2])

\* C8: if every fetched row has a missing, empty or zero-norm embedding (or
\* no row is fetched), the call returns the empty sequence and raises
\* nothing; such a row never appears in a result.
C8_DegenerateRowsGiveEmpty ==
    rag_pc # "ready" =>
        /\ (\A id \in FetchedRowIds : DegenerateEmbedding(RowAt(id))) =>
              (rag_pc = "returned" /\ rag_result = <<>>)
        /\ \A id \in FetchedRowIds :
              DegenerateEmbedding(RowAt(id)) =>
                  RowAt(id).content \notin ResultContents

\* two fetched rows, one without embedding and one of norm zero, a usable
\* query and no failure
C8_Witness ==
    /\ rag_pc = "returned"
    /\ rag_result = <<>>
    /\ QueryUsable
    /\ embed_reply.value # <<0, 0>>
    /\ fetch_fails = {}
    /\ Cardinality(FetchedRowIds) = 2
    /\ \E a, b \in FetchedRowIds :
          /\ RowAt(a).embedding = PyNone
          /\ RowAt(b).embedding = PyStr("[0, 0]")

----------------------------------------------------------------------------
(* Claims about run *)

\* C9: when the embedding provider raises during retrieval inside run
\* (rag_enabled true) and the completion provider returns schema-valid
\* JSON, run calls the completion provider and returns a result with a
\* non-empty completion and retrieved_chunks = [].
C9_EmbeddingFailureStillCompletes ==
    (/\ fast_template_selector(selector, user_input) \in DOMAIN PROMPT_PROTOTYPE_REGISTRY
     /\ rag_enabled
     /\ embed_reply.kind = "raise"
     /\ llm_reply.kind = "text" /\ llm_reply.parses
     /\ AgentActionSchema(llm_reply.json).ok)
        => /\ pc # "raised"
           /\ pc = "prompt_built" => retrieved_chunks = <<>>
           /\ pc = "returned" =>
                 /\ Len(llm_calls) = 1
                 /\ Len(run_result) = 1
                 /\ run_result[1].completion.kv # <<>>
                 /\ run_result[1].retrieved_chunks = <<>>

\* the store holds rows, the embedding provider raised, run returned
C9_Witness ==
    /\ pc = "returned"
    /\ rag_enabled
    /\ embed_reply.kind = "raise"
    /\ Len(tables["saq_product_embedding"]) = 2
    /\ Len(llm_calls) = 1
    /\ run_result[1].retrieved_chunks = <<>>

\* C10: when the completion provider returns text that is not parseable
\* JSON, run raises and returns no dictionary, and the provider was called
\* exactly once.
C10_MalformedOutputRaises ==
    (llm_reply.kind = "text" /\ ~llm_reply.parses)
        => /\ pc # "returned"
           /\ run_result = <<>>
           /\ Len(llm_calls) <= 1
           /\ llm_calls # <<>> =>
                 (pc = "raised" /\ run_error = "JSONDecodeError")

C10_Witness ==
    /\ pc = "raised"
    /\ llm_reply.kind = "text" /\ ~llm_reply.parses
    /\ run_error = "JSONDecodeError"
    /\ Len(llm_calls) = 1
    /\ run_result = <<>>

----------------------------------------------------------------------------
(* Claims about the action schema *)

\* the parsed reply of the provider and the completion run returned
ParsedReply == llm_reply.json
Completion == run_result[1].completion

HexColor(s) ==
    /\ Len(s) \in {4, 7}
    /\ s[1] = "#"
    /\ \A i \in 2..Len(s) : s[i] \in HexDigits

\* a recipe with at least one ingredient and one instruction, each
\* ingredient with a hex colour
RecipeMeetsConstraints(r) ==
    /\ r.t = "dict"
    /\ Has(r, "ingredients") /\ Has(r, "instructions")
    /\ Get(r, "ingredients").t = "list" /\ Len(Get(r, "ingredients").xs) >= 1
    /\ Get(r, "instructions").t = "list" /\ Len(Get(r, "instructions").xs) >= 1
    /\ \A i \in DOMAIN Get(r, "ingredients").xs :
          LET item == Get(r, "ingredients").xs[i]
          IN /\ item.t = "dict"
             /\ Has(item, "color")
             /\ Get(item, "color").t = "str"
             /\ HexColor(Get(item, "color").s)

\* the constraints of the Action Schema on an object whose reasoning is flat
MeetsActionSchema(o) ==
    /\ o.t = "dict"
    /\ \A k \in {"id", "name", "created_at", "updated_at", "action_type",
                 "confidence", "reasoning", "conversation"} : Has(o, k)
    /\ \/ Get(o, "action_type").t = "null"
       \/ /\ Get(o, "action_type").t = "str"
          /\ Get(o, "action_type").s \in
                {<<"c","r","e","a","t","e","_","d","r","i","n","k">>,
                 <<"s","e","a","r","c","h","_","d","r","i","n","k">>,
                 <<"s","u","g","g","e","s","t","_","d","r","i","n","k">>}
    /\ Get(o, "confidence").t \in {"int", "float"}
    /\ Hundredths(Get(o, "confidence")) >= 0
    /\ Hundredths(Get(o, "confidence")) <= 100
    /\ \A k \in {"reasoning", "conversation"} :
          Get(o, k).t = "str" /\ Len(Get(o, k).s) <= 1000
    /\ \A k \in RecipeKeys :
          (Has(o, k) /\ Get(o, k).t # "null") => RecipeMeetsConstraints(Get(o, k))

\* the object with its reasoning flattened
Flattened(o) ==
    IF o.t = "dict" /\ Has(o, "reasoning")
        THEN Put(o, "reasoning", flatten_reasoning(Get(o, "reasoning")))
        ELSE o

\* C11: validation is all-or-nothing.  Every completion run returns meets
\* all constraints of the Action Schema (the eight keys present,
\* action_type null or one of the three names, confidence in [0, 1],
\* reasoning and conversation flat strings of at most 1000 characters after
\* flattening, every recipe with an ingredient, an instruction and hex
\* colours); a parsed reply that breaks one of them makes run raise and
\* return nothing.
C11_ValidationAllOrNothing ==
    /\ run_result # <<>> => pc = "returned"
    /\ pc = "returned" =>
          /\ MeetsActionSchema(Completion)
          /\ MeetsActionSchema(Flattened(ParsedReply))

\* the parts of the reasoning are short, their flattening is too long:
\* run raised
C11_Witness ==
    /\ pc = "raised"
    /\ run_error = "ValidationError"
    /\ run_result = <<>>
    /\ Len(llm_calls) = 1
    /\ ParsedReply.t = "dict"
    /\ Has(ParsedReply, "reasoning")
    /\ Get(ParsedReply, "reasoning").t = "dict"
    /\ \A i \in DOMAIN Get(ParsedReply, "reasoning").kv :
          Len(Get(ParsedReply, "reasoning").kv[i].v.s) <= 1000
    /\ Len(flatten_reasoning(Get(ParsedReply, "reasoning")).s) > 1000
    /\ MeetsActionSchema(Put(ParsedReply, "reasoning", JStr(<<"r">>)))

\* the glass names and garnishes the action_generation instructions allow
GlassNames ==
    {g \o <<" ","g","l","a","s","s">> :
        g \in {<<"z","o","m","b","i","e">>, <<"c","o","c","k","t","a","i","l">>,
               <<"r","o","c","k","s">>, <<"h","u","r","r","i","c","a","n","e">>,
               <<"p","i","n","t">>, <<"s","e","i","d","e","l">>, <<"s","h","o","t">>,
               <<"h","i","g","h","b","a","l","l">>,
               <<"m","a","r","g","a","r","i","t","a">>,
               <<"m","a","r","t","i","n","i">>}}

GarnishNames ==
    {<<"l","e","m","o","n">>, <<"l","i","m","e">>, <<"o","r","a","n","g","e">>,
     <<"c","h","e","r","r","y">>, <<"o","l","i","v","e">>,
     <<"s","a","l","t","_","r","i","m">>, <<"m","i","n","t">>}

\* the recipes of a parsed reply
RecipesOf(o) == {Get(o, k) : k \in {j \in RecipeKeys : IsRecipe(o, j)}}

\* C12: a parsed completion whose drink_recipe or suggest_drink has a
\* glass_type outside the fixed glass names, or a garnish outside the fixed
\* garnishes (null allowed), is rejected and never returned by run.
C12_GlassAndGarnishAreEnumerated ==
    pc = "returned" =>
        \A r \in RecipesOf(ParsedReply) :
            /\ Has(r, "glass_type") =>
                  /\ Get(r, "glass_type").t = "str"
                  /\ Get(r, "glass_type").s \in GlassNames
            /\ Has(r, "garnish") =>
                  \/ Get(r, "garnish").t = "null"
                  \/ /\ Get(r, "garnish").t = "str"
                     /\ Get(r, "garnish").s \in GarnishNames

\* a recipe of the reply has "garnish": null and the reply is valid when
\* that key is left to its default
GarnishNullOtherwiseValid(o) ==
    /\ o.t = "dict"
    /\ \E k \in RecipeKeys :
          /\ IsRecipe(o, k)
          /\ Has(Get(o, k), "garnish")
          /\ Get(Get(o, k), "garnish").t = "null"
          /\ AgentActionSchema(PutInRecipe(o, k, Pair("garnish", Absent))).ok

\* C13: a drink recipe whose garnish is explicitly null and which is valid
\* otherwise passes validation: run returns its completion.
C13_NullGarnishIsAccepted ==
    (pc \in {"returned", "raised"} /\ GarnishNullOtherwiseValid(ParsedReply))
        => pc = "returned"

\* the reasoning values the provider sent
ReasoningInputs ==
    IF ParsedReply.t = "dict" /\ Has(ParsedReply, "reasoning")
        THEN {Get(ParsedReply, "reasoning")} ELSE {}

\* a flat string: a str whose items are characters
FlatString(x) == x.t = "str" /\ \A i \in DOMAIN x.s : x.s[i] \in STRING

\* C14: flatten_reasoning is the identity on strings and idempotent, and
\* its result is always a flat string.
C14_FlattenIdentityAndIdempotent ==
    \A x \in ReasoningInputs :
        /\ FlatString(flatten_reasoning(x))
        /\ x.t = "str" => flatten_reasoning(x) = x
        /\ flatten_reasoning(flatten_reasoning(x)) = flatten_reasoning(x)

\* run returned the key-sorted flattening of a mapping, and flattening it
\* again gives the same text
C14_Witness ==
    /\ pc = "returned"
    /\ Get(ParsedReply, "reasoning") =
          JDict(<<Pair("step2", JStr(<<"b">>)), Pair("step1", JStr(<<"a">>))>>)
    /\ Get(Completion, "reasoning") = JStr(<<"a", " ", "b">>)
    /\ flatten_reasoning(Get(Completion, "reasoning")) = Get(Completion, "reasoning")

----------------------------------------------------------------------------
(* Claims about the LLM adapter *)

\* C15: _invoke_llm called without a response schema sends the prompt
\* unchanged to the completion provider, with the persona as system
\* instruction, and returns the provider's raw text.
C15_UnconstrainedModeReturnsRawText ==
    (/\ llm_pc \in {"returned", "raised"}
     /\ llm_schema = "None"
     /\ llm_reply.kind = "text")
        => /\ llm_pc = "returned"
           /\ llm_out[1].sent =
                 <<[contents |-> llm_prompt, system_instruction |-> personality]>>
           /\ ~llm_reply.parses => llm_out[1].completion = JStr(llm_reply.text)

----------------------------------------------------------------------------
(* Claims about the steps of run *)

\* the run went past its retrieval step
PastRetrieval == pc \in {"prompt_built", "returned"} \/ (pc = "raised" /\ llm_calls # <<>>)

\* C16: with rag_enabled true run invokes the retrieval strategy exactly
\* once, whatever template the selector chose; with rag_enabled false it
\* never invokes it and retrieved_chunks is the empty list.
C16_RetrievalOnceWhenEnabled ==
    /\ rag_calls <= 1
    /\ (rag_enabled /\ PastRetrieval) => rag_calls = 1
    /\ ~rag_enabled =>
          /\ rag_calls = 0
          /\ retrieved_chunks = <<>>
          /\ pc = "returned" => run_result[1].retrieved_chunks = <<>>

\* a selector given to the engine chose chat_style, the store holds rows,
\* and run returned after one retrieval
C16_Witness ==
    /\ pc = "returned"
    /\ selector.kind = "custom"
    /\ template_name = "chat_style"
    /\ rag_enabled
    /\ rag_calls = 1
    /\ retrieved_chunks # <<>>

\* the six registered template names
RegisteredNames ==
    {"classic_completion", "retrieval_augmented", "question_answering",
     "action_generation", "summarization", "chat_style"}

\* C19: get_prompt_prototype raises for a name that is not one of the six
\* registered names and returns no Prompt; when a custom selector returns
\* such a name, run fails at that step, before any few-shot load, retrieval
\* call or completion-provider call.
C19_UnknownTemplateFailsFirst ==
    (pc # "start" /\ template_name \notin RegisteredNames)
        => /\ get_prompt_prototype(template_name, user_input).raised
           /\ get_prompt_prototype(template_name, user_input).prompt = <<>>
           /\ pc \in {"selected", "raised"}
           /\ pc = "raised" => run_error = "ValueError"
           /\ DOMAIN example_cache = {}
           /\ rag_calls = 0
           /\ llm_calls = <<>>
           /\ run_prompt = <<>>
           /\ run_result = <<>>

\* the selector answered "haiku" and run raised at the registry lookup
C19_Witness ==
    /\ pc = "raised"
    /\ run_error = "ValueError"
    /\ selector = [kind |-> "custom", returns |-> "haiku"]
    /\ template_name = "haiku"
    /\ rag_enabled
    /\ readable_files # {}
    /\ llm_calls = <<>>

----------------------------------------------------------------------------
(* Claims about the few-shot example cache *)

\* C17: under any interleaving of the callers, every step keeps each entry
\* of the cache with its value; a call that finds an entry returns that
\* entry's sequence and reads no file; and callers that return for the same
\* name hold the same sequence, the one the cache holds
C17_CacheIsAppendOnly ==
    [][/\ \A n \in DOMAIN example_cache :
            n \in DOMAIN example_cache' /\ example_cache'[n] = example_cache[n]
       /\ \A c \in Callers :
            (/\ loaders[c].pc = "idle"
             /\ loaders'[c].pc # "idle"
             /\ loaders'[c].name \in DOMAIN example_cache)
            => /\ loaders'[c].pc = "returned"
               /\ loaders'[c].result = example_cache[loaders'[c].name]
               /\ loaders'[c].reads = 0
       /\ \A c, d \in Callers :
            (/\ loaders'[c].pc = "returned"
             /\ loaders'[d].pc = "returned"
             /\ loaders'[c].name = loaders'[d].name)
            => /\ loaders'[c].result = loaders'[d].result
               /\ loaders'[c].result = example_cache'[loaders'[c].name]]_vars

\* two callers raced to populate chat_style: both read the files, both
\* returned, and what they hold is not empty
C17_Witness ==
    \A c \in Callers :
        /\ loaders[c].pc = "returned"
        /\ loaders[c].name = "chat_style"
        /\ ~loaders[c].hit
        /\ loaders[c].reads = 2
        /\ loaders[c].result # <<>>

\* the contents, in the order of the template's list, of the files of the
\* list that can be read; nothing for a name without a list
ReadableContents(name) ==
    IF name \in {"action_generation", "retrieval_augmented", "chat_style",
                 "classic_completion"}
        THEN LET kept == SelectSeq(template_to_examples[name],
                                   LAMBDA f : f \in readable_files)
             IN [i \in 1..Len(kept) |-> FileContent(kept[i])]
        ELSE <<>>

\* C18: no call of _get_few_shot_examples raises, and what a call returns
\* is the contents, in list order, of exactly the readable files of the
\* template's list: nothing for a name that has no list
C18_LoaderNeverRaises ==
    \A c \in Callers :
        /\ loaders[c].pc # "raised"
        /\ loaders[c].pc = "returned"
            => loaders[c].result = ReadableContents(loaders[c].name)

\* a caller loaded chat_style while the first file of its list could not be
\* read: it went through both files and returns the second alone
C18_Witness ==
    /\ "create_drink_example.txt" \notin readable_files
    /\ \E c \in Callers :
        /\ loaders[c].pc = "returned"
        /\ loaders[c].name = "chat_style"
        /\ loaders[c].reads = 2
        /\ loaders[c].result = <<FileContent("suggest_drink_example.txt")>>

----------------------------------------------------------------------------
(* Claims about the chat connection *)

\* the message read last was typed by the user on the authenticated
\* session, and its handling is over
UserMessageAnswered ==
    /\ chat.pc = "open"
    /\ chat.message.kind = "json"
    /\ chat.message.object
    /\ chat.message.type = "user"

\* C20: once a message typed by the user has been answered, the engine's
\* run has been invoked and has returned, and the completion it returned is
\* the content of the frame that closes the answer
C20_EngineRunsOncePerUserMessage ==
    UserMessageAnswered
    => /\ pc = "returned"
       /\ run_result # <<>>
       /\ \E k \in DOMAIN chat.sent :
            /\ chat.sent[k].type = "stream_end"
            /\ chat.sent[k].content = run_result[1].completion

\* the message read last had content that is not empty
ContentGiven ==
    /\ chat.message.content # None
    /\ chat.message.content[1] # <<>>

\* the position in chat.sent of the last stream_start, 0 when there is none
LastStart ==
    LET starts == {k \in DOMAIN chat.sent : chat.sent[k].type = "stream_start"}
    IN IF starts = {} THEN 0 ELSE CHOOSE k \in starts : \A j \in starts : j <= k

\* C21: once a message typed by the user with content has been answered,
\* the frames sent for it are one stream_start, then one or more
\* stream_delta, then one stream_end with complete set that carries the
\* whole response, all under the message id of the stream_start; the
\* stream_end is the last frame sent
C21_AnswerIsStartDeltasEnd ==
    (UserMessageAnswered /\ ContentGiven)
    => LET n == Len(chat.sent)
       IN /\ LastStart > 0
          /\ n >= LastStart + 2
          /\ \A j \in (LastStart + 1)..(n - 1) :
                /\ chat.sent[j].type = "stream_delta"
                /\ chat.sent[j].message_id = chat.sent[LastStart].message_id
          /\ chat.sent[n].type = "stream_end"
          /\ chat.sent[n].message_id = chat.sent[LastStart].message_id
          /\ chat.sent[n].complete = "True"
          /\ chat.sent[n].content = JStr(chat.response_text)

\* whose token each valid token is
TokenOwner == [alice_token |-> "alice", bob_token |-> "bob"]

\* the token is missing, or it is not a valid token of the user
FailsFor(token, users) ==
    \/ token = None
    \/ token[1] \notin DOMAIN TokenOwner
    \/ TokenOwner[token[1]] \notin users

\* the message is an object that carries a token
CarriesToken(data) ==
    /\ data.kind = "json"
    /\ data.object
    /\ data.token # None

\* C22: a connect whose token is missing or invalid, and a message whose
\* token is invalid or another user's, each make the server send one error
\* frame and nothing else (no connected frame, no stream_start), and close
\* the socket with code 1008; on a closed socket nothing more is read or sent
C22_AuthFailureClosesWith1008 ==
    [][/\ (chat.pc = "accepted" /\ FailsFor(chat.token, {"alice", "bob"}))
            => /\ chat'.pc = "closed"
               /\ chat'.close_code = 1008
               /\ Len(chat'.sent) = 1
               /\ chat'.sent[1].type = "error"
       /\ (/\ chat.pc = "open"
           /\ chat'.received = chat.received + 1
           /\ CarriesToken(chat'.message)
           /\ FailsFor(chat'.message.token, {chat.user}))
            => /\ chat'.pc = "closed"
               /\ chat'.close_code = 1008
               /\ Len(chat'.sent) = Len(chat.sent) + 1
               /\ SubSeq(chat'.sent, 1, Len(chat.sent)) = chat.sent
               /\ chat'.sent[Len(chat'.sent)].type = "error"
               /\ chat'.message_count = chat.message_count
       /\ chat.pc = "closed"
            => (chat'.received = chat.received /\ chat'.sent = chat.sent)]_vars

\* the second message read carried another user's token and the socket
\* was closed with 1008
C22_Witness ==
    /\ chat.pc = "closed"
    /\ chat.close_code = 1008
    /\ chat.received = 2
    /\ chat.message.kind = "json"
    /\ chat.message.object
    /\ chat.message.token = <<"bob_token">>
    /\ chat.sent[Len(chat.sent)].error = "authentication_mismatch"

----------------------------------------------------------------------------
(* Claims about the flattening of a reasoning mapping *)

\* str() of every value of the mapping, in key-sorted order
AllValueTexts(d) ==
    [i \in 1..Len(SortedKeys(d)) |-> PyStrOf(Get(d, SortedKeys(d)[i]))]

\* C23: for a reasoning that is a mapping, flatten_reasoning gives the
\* values of the mapping joined by one space in key-sorted order, a nested
\* mapping through str(), with no value left out; step1/step2 give "a b"
C23_FlattenJoinsAllValues ==
    /\ flatten_reasoning(
          JDict(<<Pair("step1", JStr(<<"a">>)), Pair("step2", JStr(<<"b">>))>>))
       = JStr(<<"a", " ", "b">>)
    /\ \A x \in ReasoningInputs :
          x.t = "dict" => flatten_reasoning(x) = JStr(StrJoin(<<" ">>, AllValueTexts(x)))

----------------------------------------------------------------------------
(* Claims about the order of the steps of run and about its prompt *)

\* C24: in one run the template is selected before the prompt is
\* instantiated, the prompt is instantiated before the few-shot examples
\* are loaded and before anything is retrieved, and the provider is called
\* once, with the rendering of a prompt that has its few-shot block and,
\* when retrieval is enabled, its retrieved context; after that call run
\* only returns or raises
C24_StepsInOrder ==
    /\ pc = "start" => (template_name = "none" /\ run_prompt = <<>>)
    /\ run_prompt # <<>> => template_name # "none"
    /\ DOMAIN example_cache # {} => run_prompt # <<>>
    /\ rag_calls > 0 => run_prompt # <<>>
    /\ llm_calls # <<>>
        => /\ Len(llm_calls) = 1
           /\ pc \in {"returned", "raised"}
           /\ template_name \in DOMAIN example_cache
           /\ rag_enabled => rag_calls = 1
           /\ \E k \in DOMAIN run_prompt :
                run_prompt[k] = <<"\n[CONVERSATION]\n">> \o user_input
    /\ pc = "returned" => Len(llm_calls) = 1

\* a run with retrieval enabled returned: the examples were loaded, the
\* store was searched once and the provider was called once
C24_Witness ==
    /\ pc = "returned"
    /\ rag_enabled
    /\ rag_calls = 1
    /\ retrieved_chunks # <<>>
    /\ example_cache[template_name] # <<>>
    /\ Len(llm_calls) = 1

\* the few-shot block of the examples the loader returned: nothing when
\* there is none
FewShotBlock(examples) ==
    IF examples = <<>> THEN <<>>
    ELSE <<<<"\n\n[FEW-SHOT EXAMPLES]">>>>
         \o [i \in 1..Len(examples) |->
                <<"\n\nExample ", Digits[i], ":\n">> \o examples[i]]
         \o <<<<"\n[END EXAMPLES]\n">>>>

\* the context block: header, one segment per chunk, footer
ContextBlock(chunks) ==
    <<<<"\n\n[CONTEXT FETCHED FROM ONLINE RAG DATABASE]">>>>
    \o [i \in 1..Len(chunks) |-> <<"\n[RETRIEVED]\n">> \o chunks[i]]
    \o <<<<"\n[END CONTEXT FETCHED FROM ONLINE RAG DATABASE]\n">>>>

\* C25: the prompt run returns is the rendering of, in this order, the
\* seed of the template, the few-shot block when the loader returned
\* examples, the context block when rag_enabled is true and only then, and
\* the conversation segment with the user input
C25_PromptLayout ==
    pc = "returned"
    => run_result[1].prompt =
          StrJoin(<<"\n">>,
              <<<<PROMPT_PROTOTYPE_REGISTRY[template_name]>>>>
              \o FewShotBlock(example_cache[template_name])
              \o (IF rag_enabled THEN ContextBlock(retrieved_chunks) ELSE <<>>)
              \o <<<<"\n[CONVERSATION]\n">> \o user_input>>)

----------------------------------------------------------------------------
(* Claims about chat sessions side by side *)

\* C26: on one connection a message is read only when no response is
\* being streamed, so every frame of the answer to a message is sent before
\* the next message is read; and a step of one connection leaves the
\* session of every other connection, its message counter included, as it
\* was
C26_OneMessageAtATime ==
    [][\A c \in Connections :
          /\ sessions'[c].received # sessions[c].received
                => /\ sessions[c].pc = "open"
                   /\ sessions[c].offset >= Len(sessions[c].response_text)
          /\ sessions[c].pc = "streaming"
                => sessions'[c].received = sessions[c].received
          /\ sessions'[c] # sessions[c]
                => \A d \in Connections \ {c} : sessions'[d] = sessions[d]]_vars

\* the first connection has read its second message, after the answer to
\* its first, while the second connection is in the middle of an answer
C26_Witness ==
    /\ sessions["k1"].received = 2
    /\ sessions["k1"].pc = "streaming"
    /\ sessions["k1"].message_count > 1
    /\ sessions["k2"].pc = "streaming"
    /\ sessions["k2"].offset > 0
    /\ sessions["k2"].message_count = 1

----------------------------------------------------------------------------
(* Claims about the engine factory *)

\* C27: after any calls of get_agentic_engine and reset_agentic_engine,
\* the calls of get_agentic_engine since the last reset all returned the
\* same engine and at most one engine was built since then; a call that
\* finds no instance builds an engine that did not exist before and whose
\* few-shot cache is empty
C27_OneEnginePerResetInterval ==
    [][/\ \A i, j \in DOMAIN factory'.returned :
            factory'.returned[i] = factory'.returned[j]
       /\ factory'.built <= 1
       /\ (factory.instance = 0 /\ factory'.instance # 0)
            => /\ factory'.instance \notin DOMAIN factory.engines
               /\ factory'.instance \in DOMAIN factory'.engines
               /\ DOMAIN factory'.engines[factory'.instance].example_cache = {}]_vars

\* an engine was built and loaded examples, the factory was reset, and two
\* calls since then returned the second engine, whose cache is empty
C27_Witness ==
    /\ Len(factory.engines) = 2
    /\ DOMAIN factory.engines[1].example_cache # {}
    /\ factory.returned = <<2, 2>>
    /\ factory.built = 1
    /\ DOMAIN factory.engines[2].example_cache = {}

----------------------------------------------------------------------------
(* Claims about user_id *)

----------------------------------------------------------------------------
(* Claims about the prompt run returns *)

\* C29: the prompt run returns is the rendering of the prompt's segments
\* as they are when the provider is called; the text sent to the provider
\* is that prompt followed by the output schema block, so the returned
\* prompt is a proper prefix of the text sent and differs from it
C29_ReturnedPromptIsPrefixOfSent ==
    pc = "returned"
    => LET returned == run_result[1].prompt
           sent == llm_calls[1].contents
       IN /\ returned = Prompt_as_string(run_prompt, <<"\n">>)
          /\ sent = returned \o OutputSchemaBlock
          /\ Len(returned) < Len(sent)
          /\ SubSeq(sent, 1, Len(returned)) = returned
          /\ returned # sent

\* a run returned a prompt that holds a few-shot block and retrieved
\* context
C29_Witness ==
    /\ pc = "returned"
    /\ Len(llm_calls) = 1
    /\ example_cache[template_name] # <<>>
    /\ retrieved_chunks # <<>>
    /\ Len(run_result[1].prompt) > Len(user_input)

----------------------------------------------------------------------------
(* Claims about the streamed chunks *)

\* the text of the stream_delta frames among the first k frames sent after
\* the last stream_start, in the order they were sent
RECURSIVE DeltaText(_)
DeltaText(k) ==
    IF k <= LastStart THEN <<>>
    ELSE IF chat.sent[k].type = "stream_delta"
        THEN DeltaText(k - 1) \o chat.sent[k].delta[1]
        ELSE DeltaText(k - 1)

\* C30: once a message typed by the user has been answered, the deltas of
\* its stream_delta frames joined in the order sent are the whole response
\* text, each delta has between one and chunk_size characters, each of those
\* frames has complete unset and the message id of the stream_start before
\* it, and no two stream_start frames of the session have the same id
C30_DeltasSpellTheResponse ==
    UserMessageAnswered
    => /\ LastStart > 0
       /\ DeltaText(Len(chat.sent)) = chat.response_text
       /\ \A j \in DOMAIN chat.sent :
            (j > LastStart /\ chat.sent[j].type = "stream_delta")
            => /\ chat.sent[j].delta # None
               /\ Len(chat.sent[j].delta[1]) \in 1..chunk_size
               /\ chat.sent[j].complete = "False"
               /\ chat.sent[j].message_id = chat.sent[LastStart].message_id
       /\ \A i, j \in DOMAIN chat.sent :
            (/\ i # j
             /\ chat.sent[i].type = "stream_start"
             /\ chat.sent[j].type = "stream_start")
            => chat.sent[i].message_id # chat.sent[j].message_id

====
